---- MODULE Spec2Model ----
(***************************************************************************)
(* Model of the standalone priority task queue of whisper-s2t              *)
(* (queue_service.py), its workers (queue_worker.py) and the cancel        *)
(* handlers (queue_http_api.py, queue_monitor.py).                         *)
(*                                                                         *)
(* Every process that uses the queue constructs its own                    *)
(* StandaloneQueueService: the model has one instance per process.  The    *)
(* Redis keys queue_priority / queue_tasks / queue_completed / queue_stats *)
(* and the backup file are shared between the instances; memory_queue,     *)
(* memory_tasks, memory_completed, stats, processing_tasks and             *)
(* last_backup_time are fields of one instance.                            *)
(*                                                                         *)
(* Further parts: the single-process deployment of queue_processor.py and  *)
(* main_queue.py (TaskQueue, the processor coroutine, WebSocketManager and *)
(* the websocket endpoints), extract_risk_result of queue_worker.py, the   *)
(* signal handlers of the processes, and the ServiceManager of             *)
(* start_separated_services.py.                                            *)
(*                                                                         *)
(* Representation:                                                         *)
(*   - a datetime / time.time() value is a number of seconds;              *)
(*   - datetime.isoformat() text is [iso |-> t];                           *)
(*   - json.dumps(d) text is [json |-> d];                                 *)
(*   - Python None is <<>>, a present optional value x is <<x>>;           *)
(*   - progress is kept in tenths (0.1 is 1, 1.0 is 10);                   *)
(*   - task ids are numbers whose order is the lexicographic order of the  *)
(*     uuid strings (Redis breaks score ties by member).                   *)
(***************************************************************************)
EXTENDS Integers, Sequences, FiniteSets, TLC

\* ---------------------------------------------------------------- bounds
NumInstances == 2
MaxTasks == 2
MaxPriority == 1
MaxTicks == 1
MaxSaves == 1
MaxRetryTasks == 1
MaxCount == 2
NumConns == 3
MaxWsTasks == 1
MaxDrops == 1
MaxWords == 4
NumWorkers == 2
MaxStackTasks == 3

\* ------------------------------------------------------ program constants
ScoreFactor == 1000000
DefaultPriority == 0
DefaultMaxRetries == 3
max_processing_time == 3600

Instances == 1..NumInstances
TaskIds == 1..MaxTasks
Priorities == 0..MaxPriority

None == <<>>
Some(x) == <<x>>

\* ------------------------------------------------------------ conversions
isoformat(t) == [iso |-> t]
fromisoformat(s) == s.iso
json_dumps(d) == [json |-> d]
json_loads(s) == s.json

\* -------------------------------------------------------- store commands
EmptyMap == [x \in {} |-> 0]
HSet(h, k, v) == [x \in (DOMAIN h) \cup {k} |-> IF x = k THEN v ELSE h[x]]
HGet(h, k) == IF k \in DOMAIN h THEN Some(h[k]) ELSE None
DictDel(h, k) == [x \in (DOMAIN h) \ {k} |-> h[x]]
ZAdd(z, member, score) == HSet(z, member, score)
ZRem(z, member) == DictDel(z, member)
\* sorted-set order: by score, ties by member
ZBefore(z, a, b) == z[a] < z[b] \/ (z[a] = z[b] /\ a <= b)
ZMax(z) == CHOOSE m \in DOMAIN z : \A o \in DOMAIN z : ZBefore(z, o, m)
\* zrevrange(key, 0, 0): the member with the highest score, or nothing
ZRevRangeFirst(z) == IF DOMAIN z = {} THEN None ELSE Some(ZMax(z))
RECURSIVE ZRevRangeAll(_)
\* zrevrange(key, 0, -1, withscores=True)
ZRevRangeAll(z) ==
  IF DOMAIN z = {} THEN <<>>
  ELSE LET m == ZMax(z) IN <<(<<m, z[m]>>)>> \o ZRevRangeAll(ZRem(z, m))
HIncrBy(st, field, n) == [st EXCEPT ![field] = @ + n]

ZeroStats ==
  [total_tasks |-> 0, queued_tasks |-> 0, processing_tasks |-> 0,
   completed_tasks |-> 0, failed_tasks |-> 0]

\* ------------------------------------------------- in-memory queue order
\* key=lambda x: (-x[0], x[1]) on (priority, time, task_id) tuples
SortKeyLess(a, b) == a[1] > b[1] \/ (a[1] = b[1] /\ a[2] < b[2])
RECURSIVE SortedInsert(_, _)
SortedInsert(q, e) ==
  IF q = <<>> THEN <<e>>
  ELSE IF SortKeyLess(e, Head(q)) THEN <<e>> \o q
  ELSE <<Head(q)>> \o SortedInsert(Tail(q), e)
RECURSIVE ListSort(_)
\* list.sort is stable: equal keys keep their list order
ListSort(q) ==
  IF q = <<>> THEN <<>>
  ELSE SortedInsert(ListSort(SubSeq(q, 1, Len(q) - 1)), q[Len(q)])

\* reversed(list)
RECURSIVE Reversed(_)
Reversed(l) ==
  IF l = <<>> THEN <<>> ELSE Append(Reversed(Tail(l)), Head(l))

\* ------------------------------------------------------------ task model
\* BaseTask as built by the submit handlers; task.dict() with created_at
\* replaced by its isoformat text
TaskData(id, priority, created) ==
  [task_id |-> id, status |-> "queued", created_at |-> isoformat(created),
   started_at |-> None, completed_at |-> None, result |-> None,
   error_message |-> None, progress |-> 0, priority |-> priority,
   retry_count |-> 0, max_retries |-> DefaultMaxRetries,
   task_type |-> "transcription"]

\* RiskDetectionTask as built by submit_risk_detection_task
RiskTaskData(id, priority, created) ==
  [TaskData(id, priority, created) EXCEPT !.task_type = "risk_detection"]

VARIABLES
  now,              \* wall clock, seconds
  ticks,            \* number of clock advances so far
  queue_priority,   \* Redis sorted set: task id -> score
  queue_tasks,      \* Redis hash: task id -> JSON text
  queue_completed,  \* Redis hash: task id -> JSON text
  queue_stats,      \* Redis hash of counters
  backup_file,      \* content of the file at self.backup_file
  alive,            \* instance -> the process is running
  redis_client,     \* instance -> connected to Redis (FALSE: in-memory)
  memory_queue,     \* instance -> list of (priority, time, task_id)
  memory_tasks,     \* instance -> dict task id -> dict
  memory_completed, \* instance -> dict task id -> dict
  stats,            \* instance -> self.stats
  processing_tasks, \* instance -> dict task id -> dequeue time
  last_backup_time, \* instance -> None or time
  pc,               \* instance -> position inside a running call
  task_id,          \* instance -> local task_id of the running pop_task
  ret,              \* instance -> outcome of the last call: "True", "False",
                    \* "None", "task" (pop_task handed a task: cur), or the
                    \* reply of the cancel handler
  cur,              \* instance -> the task a worker holds
  wst,              \* instance -> worker position in process_*_task
  backup_data,      \* instance -> local backup_data of the running save_backup
  saves,            \* history: number of save_backup calls so far
  last_sweep,       \* history: instance -> time of its last cleanup_stuck_tasks
  submitted,        \* history: <<task id, priority, time>> in push order
  popped,           \* history: <<instance, task id, Len(submitted), time>>
                    \* in pop_task return order
  \* --- queue_processor.py / main_queue.py: one asyncio process
  tq_tasks,           \* TaskQueue: task id -> None or Some([status, progress])
  tq_queue,           \* TaskQueue: the stack of queued task ids, top first
  active_connections, \* WebSocketManager: registered connection ids
  task_subscribers,   \* WebSocketManager: task id -> None or Some(set)
  broken,             \* connections whose socket is closed: a send raises
  ep,                 \* connection -> position of its websocket_endpoint
  proc,               \* position of the queue_processor() coroutine
  bcast,              \* None or Some(locals of the running broadcast)
  recorded,           \* history: <<task, status, progress>> per update
  published,          \* history: the events handed to broadcast_task_update
  received,           \* history: connection -> messages written to it
  sub_at,             \* history: connection -> Len(published) on subscribing
  tq_redis_client,    \* TaskQueue: connected to Redis (FALSE: in-memory)
  tq_backup_file,     \* content of the file at TaskQueue.backup_file
  tq_created_at,      \* task id -> what created_at of its record holds:
                      \* "text", "shared" (a text, in the dict that is also
                      \* the entry of the stack) or "datetime"
  tq_pending,         \* history: ids pushed and not yet popped, push order
  tq_issued,          \* history: the task ids issued so far
  \* --- extract_risk_result
  response,           \* the classifier's response, a sequence of words
  verdict,            \* None or Some(value returned for response)
  \* --- signal handling of a process that owns a StandaloneQueueService
  kind,               \* instance -> "service", "api" or "worker"
  running,            \* instance -> QueueWorker.running
  signalled,          \* history: instance -> a signal has been received
  exit_saves,         \* history: instance -> save_backup calls of its handler
  \* --- start_separated_services.py
  services,           \* ServiceManager.services: names in insertion order
  exited,             \* names of child processes that have exited
  sup,                \* position of the supervisor's main()
  start_log,          \* history: <<name, started>> per start_service call
  stop_log            \* history: names in stop_service call order

vars == <<now, ticks, queue_priority, queue_tasks, queue_completed,
          queue_stats, backup_file, alive, redis_client, memory_queue,
          memory_tasks, memory_completed, stats, processing_tasks,
          last_backup_time, pc, task_id, ret, cur, wst, backup_data,
          saves, last_sweep,
          submitted, popped,
          tq_tasks, tq_queue, active_connections, task_subscribers, broken,
          ep, proc, bcast, recorded, published, received, sub_at,
          tq_redis_client, tq_backup_file, tq_created_at, tq_pending,
          tq_issued,
          response, verdict,
          kind, running, signalled, exit_saves,
          services, exited, sup, start_log, stop_log>>

redisVars == <<queue_priority, queue_tasks, queue_completed, queue_stats>>
memVars == <<memory_queue, memory_tasks, memory_completed>>
workerVars == <<cur, wst>>
envVars == <<now, ticks, saves>>
queueVars == <<now, ticks, queue_priority, queue_tasks, queue_completed,
               queue_stats, backup_file, alive, redis_client, memory_queue,
               memory_tasks, memory_completed, stats, processing_tasks,
               last_backup_time, pc, task_id, ret, cur, wst, backup_data,
               saves, last_sweep, submitted, popped>>
stackVars == <<tq_redis_client, tq_backup_file, tq_created_at, tq_pending,
               tq_issued>>
wsVars == <<tq_tasks, tq_queue, active_connections, task_subscribers, broken,
            ep, proc, bcast, recorded, published, received, sub_at,
            stackVars>>
riskVars == <<response, verdict>>
sigVars == <<kind, running, signalled, exit_saves>>
supVars == <<services, exited, sup, start_log, stop_log>>
peerVars == <<wsVars, riskVars, sigVars, supVars>>

NoFile == [kind |-> "none"]
PartialFile == [kind |-> "partial"]

\* ------------------------------------------------------------------ Init
\* __init__ of every instance has run against an empty Redis and with no
\* backup file: _init_redis either connected or fell back to memory, and
\* load_backup found no file.
QueueInit(modes) ==
  /\ now = 0
  /\ ticks = 0
  /\ queue_priority = EmptyMap
  /\ queue_tasks = EmptyMap
  /\ queue_completed = EmptyMap
  /\ queue_stats = ZeroStats
  /\ backup_file = NoFile
  /\ alive = [s \in Instances |-> TRUE]
  /\ \E connected \in modes : redis_client = [s \in Instances |-> connected]
  /\ memory_queue = [s \in Instances |-> <<>>]
  /\ memory_tasks = [s \in Instances |-> EmptyMap]
  /\ memory_completed = [s \in Instances |-> EmptyMap]
  /\ stats = [s \in Instances |-> ZeroStats]
  /\ processing_tasks = [s \in Instances |-> EmptyMap]
  /\ last_backup_time = [s \in Instances |-> None]
  /\ pc = [s \in Instances |-> "idle"]
  /\ task_id = [s \in Instances |-> None]
  /\ ret = [s \in Instances |-> "None"]
  /\ cur = [s \in Instances |-> None]
  /\ wst = [s \in Instances |-> "idle"]
  /\ backup_data = [s \in Instances |-> None]
  /\ saves = 0
  /\ last_sweep = [s \in Instances |-> None]
  /\ submitted = <<>>
  /\ popped = <<>>

WsTasks == 1..MaxWsTasks
Conns == 1..NumConns

\* queue_processor.py lines 62-76 and 605-607: nothing queued, no
\* connection, the processor at its first check of the stack
WsInitWith(modes) ==
  /\ tq_tasks = [t \in WsTasks \cup (1..MaxStackTasks) |-> None]
  /\ tq_redis_client \in modes
  /\ tq_backup_file = NoFile
  /\ tq_created_at = [t \in WsTasks \cup (1..MaxStackTasks) |-> "text"]
  /\ tq_pending = <<>>
  /\ tq_issued = {}
  /\ tq_queue = <<>>
  /\ active_connections = {}
  /\ task_subscribers = [t \in WsTasks |-> None]
  /\ broken = {}
  /\ ep = [c \in Conns |-> "new"]
  /\ proc = [stage |-> "sleep", task |-> None]
  /\ bcast = None
  /\ recorded = <<>>
  /\ published = <<>>
  /\ received = [c \in Conns |-> <<>>]
  /\ sub_at = [c \in Conns |-> None]

\* the processes of main_queue.py studied with Redis reachable
WsInit == WsInitWith({TRUE})

\* no response has been handed to extract_risk_result
RiskInit ==
  /\ response = <<>>
  /\ verdict = None

\* queue_service.py lines 113-115: the handler of the service is installed
SigInit(kinds) ==
  /\ kind \in [Instances -> kinds]
  /\ running = [s \in Instances |-> TRUE]
  /\ signalled = [s \in Instances |-> FALSE]
  /\ exit_saves = [s \in Instances |-> 0]

\* start_separated_services.py lines 27-34: no child process yet
SupInit ==
  /\ services = <<>>
  /\ exited = {}
  /\ sup = [at |-> "init", i |-> 0, todo |-> <<>>]
  /\ start_log = <<>>
  /\ stop_log = <<>>

InitWith(modes) ==
  /\ QueueInit(modes)
  /\ WsInit
  /\ RiskInit
  /\ SigInit({"service"})
  /\ SupInit

Init == InitWith(BOOLEAN)

Idle(s) == alive[s] /\ pc[s] = "idle"

\* ----------------------------------------------------------------- clock
\* the wall clock advances by d seconds between two operations
Tick(d) ==
  /\ ticks < MaxTicks
  /\ now' = now + d
  /\ ticks' = ticks + 1
  /\ UNCHANGED <<saves, redisVars, backup_file, alive, redis_client, peerVars, memVars, stats,
                 processing_tasks, last_backup_time, pc, task_id, ret,
                 workerVars, submitted, popped, last_sweep, backup_data>>

\* ------------------------------------------------------------- push_task
\* score = task.priority * 1000000 + int(time.time())
Score(priority, t) == priority * ScoreFactor + t

\* push_task(task) on instance s: the body for a task whose dict is d
PushTaskBody(s, d) ==
  IF redis_client[s]
  THEN /\ queue_tasks' = HSet(queue_tasks, d.task_id, json_dumps(d))
       /\ queue_priority' = ZAdd(queue_priority, d.task_id,
                                 Score(d.priority, now))
       /\ queue_stats' = HIncrBy(HIncrBy(queue_stats, "total_tasks", 1),
                                 "queued_tasks", 1)
       /\ UNCHANGED <<queue_completed, memVars, stats>>
  ELSE /\ memory_tasks' = [memory_tasks EXCEPT ![s] = HSet(@, d.task_id, d)]
       /\ memory_queue' = [memory_queue EXCEPT ![s] =
            ListSort(Append(@, <<d.priority, now, d.task_id>>))]
       /\ stats' = [stats EXCEPT ![s] =
            HIncrBy(HIncrBy(@, "total_tasks", 1), "queued_tasks", 1)]
       /\ UNCHANGED <<redisVars, memory_completed>>

IssuedIds == {submitted[i][1] : i \in DOMAIN submitted}

\* submit_transcription_task / submit_risk_detection_task: a new uuid,
\* created_at = now, then push_task
Submit(s, d) ==
  /\ Idle(s)
  /\ d.task_id \notin IssuedIds
  /\ PushTaskBody(s, d)
  /\ ret' = [ret EXCEPT ![s] = "True"]
  /\ submitted' = Append(submitted, <<d.task_id, d.priority, now>>)
  /\ UNCHANGED <<envVars, backup_file, alive, redis_client, peerVars,
                 processing_tasks, last_backup_time, pc, task_id,
                 workerVars, popped, last_sweep, backup_data>>

\* POST /tasks/transcription
PushTask(s, id, priority) == Submit(s, TaskData(id, priority, now))

\* POST /tasks/risk-detection
PushRiskTask(s, id, priority) == Submit(s, RiskTaskData(id, priority, now))

\* -------------------------------------------------------------- pop_task
\* lines 212-222: track the processing start time, build the task, return
PopReturn(s, id) ==
  /\ processing_tasks' = [processing_tasks EXCEPT ![s] = HSet(@, id, now)]
  /\ ret' = [ret EXCEPT ![s] = "task"]
  /\ cur' = [cur EXCEPT ![s] = Some(id)]
  /\ wst' = [wst EXCEPT ![s] = "got"]
  /\ popped' = Append(popped, <<s, id, Len(submitted), now>>)

\* pop_task, in-memory path (one step: the process has no other thread)
PopTaskMemory(s) ==
  /\ Idle(s)
  /\ ~redis_client[s]
  /\ IF memory_queue[s] = <<>>
     THEN /\ ret' = [ret EXCEPT ![s] = "None"]
          /\ UNCHANGED <<memVars, stats, processing_tasks, workerVars,
                         popped, last_sweep, backup_data>>
     ELSE LET e == Head(memory_queue[s])
              id == e[Len(e)]
          IN /\ memory_queue' = [memory_queue EXCEPT ![s] = Tail(@)]
             /\ IF Len(e) = 3 /\ id \in DOMAIN memory_tasks[s]
                THEN /\ stats' = [stats EXCEPT ![s] =
                          HIncrBy(HIncrBy(@, "queued_tasks", -1),
                                  "processing_tasks", 1)]
                     /\ PopReturn(s, id)
                \* the unpacking or the lookup raised: logged, None
                ELSE /\ ret' = [ret EXCEPT ![s] = "None"]
                     /\ UNCHANGED <<stats, processing_tasks, workerVars,
                                    popped, last_sweep, backup_data>>
             /\ UNCHANGED <<memory_tasks, memory_completed>>
  /\ UNCHANGED <<envVars, redisVars, backup_file, alive, redis_client, peerVars,
                 last_backup_time, pc, task_id, submitted, last_sweep, backup_data>>

\* pop_task, Redis path, first command: zrevrange("queue_priority", 0, 0)
PopZRevRange(s) ==
  /\ Idle(s)
  /\ redis_client[s]
  /\ LET task_ids == ZRevRangeFirst(queue_priority)
     IN IF task_ids = None
        THEN /\ ret' = [ret EXCEPT ![s] = "None"]
             /\ UNCHANGED <<pc, task_id>>
        ELSE /\ task_id' = [task_id EXCEPT ![s] = task_ids]
             /\ pc' = [pc EXCEPT ![s] = "zrem"]
             /\ UNCHANGED ret
  /\ UNCHANGED <<envVars, redisVars, backup_file, alive, redis_client, peerVars,
                 memVars, stats, processing_tasks, last_backup_time,
                 workerVars, submitted, popped, last_sweep, backup_data>>

\* second command: zrem("queue_priority", task_id); its reply is not read
PopZRem(s) ==
  /\ alive[s]
  /\ pc[s] = "zrem"
  /\ queue_priority' = ZRem(queue_priority, task_id[s][1])
  /\ pc' = [pc EXCEPT ![s] = "hget"]
  /\ UNCHANGED <<envVars, queue_tasks, queue_completed, queue_stats,
                 backup_file, alive, redis_client, peerVars, memVars, stats,
                 processing_tasks, last_backup_time, task_id, ret,
                 workerVars, submitted, popped, last_sweep, backup_data>>

\* hget("queue_tasks", task_id), the two hincrby and the return
PopHGet(s) ==
  /\ alive[s]
  /\ pc[s] = "hget"
  /\ LET id == task_id[s][1]
         task_data == HGet(queue_tasks, id)
     IN IF task_data = None
        THEN /\ ret' = [ret EXCEPT ![s] = "None"]
             /\ UNCHANGED <<queue_stats, processing_tasks, workerVars,
                            popped, last_sweep, backup_data>>
        ELSE /\ queue_stats' =
                  HIncrBy(HIncrBy(queue_stats, "queued_tasks", -1),
                          "processing_tasks", 1)
             /\ PopReturn(s, id)
  /\ pc' = [pc EXCEPT ![s] = "idle"]
  /\ task_id' = [task_id EXCEPT ![s] = None]
  /\ UNCHANGED <<envVars, queue_priority, queue_tasks, queue_completed,
                 backup_file, alive, redis_client, peerVars, memVars, stats,
                 last_backup_time, submitted, last_sweep, backup_data>>

\* ---------------------------------------------------- update_task_status
\* the stores as instance s reads and writes them
View(s) ==
  [queue_priority |-> queue_priority, queue_tasks |-> queue_tasks,
   queue_completed |-> queue_completed, queue_stats |-> queue_stats,
   memory_queue |-> memory_queue[s], memory_tasks |-> memory_tasks[s],
   memory_completed |-> memory_completed[s], stats |-> stats[s],
   processing_tasks |-> processing_tasks[s], ok |-> TRUE]

\* the callers pass datetime objects for started_at and completed_at, and
\* only for those: isinstance(value, datetime) selects these two
DatetimeFields == {"started_at", "completed_at"}

\* task_dict[key] = value for every keyword argument
MergeFields(d, kwargs) ==
  [f \in DOMAIN d |->
     IF f \in DOMAIN kwargs
     THEN IF f \in DatetimeFields THEN Some(isoformat(kwargs[f]))
          ELSE kwargs[f]
     ELSE d[f]]

WithStatus(d, status, kwargs) ==
  MergeFields([d EXCEPT !.status = status], kwargs)

\* the counter updates of one status change
CountStatus(st, status) ==
  IF status = "completed"
  THEN HIncrBy(HIncrBy(st, "processing_tasks", -1), "completed_tasks", 1)
  ELSE IF status = "failed"
  THEN HIncrBy(HIncrBy(st, "processing_tasks", -1), "failed_tasks", 1)
  ELSE st

\* lines 281-283: remove from the processing tracker
Untrack(pt, id) == IF id \in DOMAIN pt THEN DictDel(pt, id) ELSE pt

\* mutant: the counters are adjusted before the record is looked up
update_task_status_counting_first(v, redis, id, status, kwargs) ==
  [v EXCEPT !.queue_stats = CountStatus(@, status),
            !.stats = CountStatus(@, status),
            !.ok = FALSE]
\* update_task_status(task_id, status, **kwargs) applied to view v
update_task_status(v, redis, id, status, kwargs) ==
  IF redis
  THEN IF id \notin DOMAIN v.queue_tasks
       THEN [v EXCEPT !.ok = FALSE]
       ELSE LET task_dict ==
                  WithStatus(json_loads(v.queue_tasks[id]), status, kwargs)
            IN [v EXCEPT
                  !.queue_tasks = HSet(@, id, json_dumps(task_dict)),
                  !.queue_stats = CountStatus(@, status),
                  !.queue_completed =
                     IF status = "completed"
                     THEN HSet(@, id, json_dumps(task_dict)) ELSE @,
                  !.processing_tasks = Untrack(@, id),
                  !.ok = TRUE]
  ELSE IF id \notin DOMAIN v.memory_tasks
       THEN [v EXCEPT !.ok = FALSE]
       ELSE LET task_dict == WithStatus(v.memory_tasks[id], status, kwargs)
            IN [v EXCEPT
                  !.memory_tasks = HSet(@, id, task_dict),
                  !.stats = CountStatus(@, status),
                  !.memory_completed =
                     IF status = "completed"
                     THEN HSet(@, id, task_dict) ELSE @,
                  !.processing_tasks = Untrack(@, id),
                  !.ok = TRUE]

\* write back what update_task_status wrote
Store(s, v) ==
  /\ queue_tasks' = v.queue_tasks
  /\ queue_completed' = v.queue_completed
  /\ queue_stats' = v.queue_stats
  /\ memory_tasks' = [memory_tasks EXCEPT ![s] = v.memory_tasks]
  /\ memory_completed' = [memory_completed EXCEPT ![s] = v.memory_completed]
  /\ stats' = [stats EXCEPT ![s] = v.stats]
  /\ processing_tasks' = [processing_tasks EXCEPT ![s] = v.processing_tasks]

\* -------------------------------------------------------- get_task_status
\* the stored dict of a task as instance s sees it: active record first,
\* then the completed record, else None
get_task_status(s, id) ==
  IF redis_client[s]
  THEN IF id \in DOMAIN queue_tasks THEN Some(json_loads(queue_tasks[id]))
       ELSE IF id \in DOMAIN queue_completed
       THEN Some(json_loads(queue_completed[id]))
       ELSE None
  ELSE IF id \in DOMAIN memory_tasks[s] THEN Some(memory_tasks[s][id])
       ELSE IF id \in DOMAIN memory_completed[s]
       THEN Some(memory_completed[s][id])
       ELSE None

\* -------------------------------------------------------- get_queue_stats
\* the counters get_queue_stats returns on instance s: the queue_stats hash
\* on the Redis path (hmget), self.stats on the in-memory path
get_queue_stats(s) == IF redis_client[s] THEN queue_stats ELSE stats[s]

\* ------------------------------------------------------------ cancel_task
\* DELETE /tasks/{task_id} (and QueueMonitor.cancel_task)
CancelTask(s, id) ==
  /\ Idle(s)
  /\ LET task == get_task_status(s, id)
     IN IF task = None
        THEN /\ ret' = [ret EXCEPT ![s] = "404"]
             /\ UNCHANGED <<redisVars, memVars, stats, processing_tasks>>
        ELSE IF task[1].status # "queued"
        THEN /\ ret' = [ret EXCEPT ![s] = "400"]
             /\ UNCHANGED <<redisVars, memVars, stats, processing_tasks>>
        ELSE LET v == update_task_status(View(s), redis_client[s], id,
                        "cancelled",
                        [completed_at |-> now,
                         error_message |-> Some("Task cancelled by user")])
             IN /\ Store(s, v)
                /\ ret' = [ret EXCEPT ![s] =
                             IF v.ok THEN "cancelled" ELSE "500"]
                /\ UNCHANGED <<queue_priority, memory_queue>>
  /\ UNCHANGED <<envVars, backup_file, alive, redis_client, peerVars,
                 last_backup_time, pc, task_id, workerVars, submitted,
                 popped, last_sweep, backup_data>>

\* ---------------------------------------------------- cleanup_stuck_tasks
StuckTasks(s) ==
  {id \in DOMAIN processing_tasks[s] :
     now - processing_tasks[s][id] > max_processing_time}

TimeoutMessage == "Task exceeded maximum processing time"

RECURSIVE FailStuck(_, _, _)
\* the loop over stuck_tasks
FailStuck(v, redis, ids) ==
  IF ids = {} THEN v
  ELSE LET id == CHOOSE x \in ids : TRUE
       IN FailStuck(update_task_status(v, redis, id, "failed",
                      [error_message |-> Some(TimeoutMessage),
                       completed_at |-> now]),
                    redis, ids \ {id})

CleanupStuckTasks(s) ==
  /\ Idle(s)
  /\ Store(s, FailStuck(View(s), redis_client[s], StuckTasks(s)))
  /\ last_sweep' = [last_sweep EXCEPT ![s] = Some(now)]
  /\ UNCHANGED <<envVars, queue_priority, memory_queue, backup_file, alive,
                 redis_client, peerVars, last_backup_time, pc, task_id, ret,
                 workerVars, submitted, popped, backup_data>>

\* ------------------------------------------------------------ QueueWorker
\* one update_task_status call of the worker on the task it holds
WorkerUpdate(s, status, kwargs, next) ==
  /\ alive[s]
  /\ pc[s] = "idle"
  /\ Store(s, update_task_status(View(s), redis_client[s], cur[s][1],
                                 status, kwargs))
  /\ wst' = [wst EXCEPT ![s] = next]
  /\ cur' = [cur EXCEPT ![s] = IF next = "idle" THEN None ELSE @]
  /\ UNCHANGED <<envVars, queue_priority, memory_queue, backup_file, alive,
                 redis_client, peerVars, last_backup_time, pc, task_id, ret,
                 submitted, popped, last_sweep, backup_data>>

\* QueueWorker.run lines 265-268: isinstance(task, ...) of the held task; the
\* type of a task is fixed by its record's task_type
Holds(s, type) ==
  /\ cur[s] # None
  /\ get_task_status(s, cur[s][1]) # None
  /\ get_task_status(s, cur[s][1])[1].task_type = type

\* process_transcription_task lines 191-197
WorkerStart(s) ==
  /\ wst[s] = "got"
  /\ Holds(s, "transcription")
  /\ WorkerUpdate(s, "processing", [started_at |-> now, progress |-> 1],
                  "started")

\* line 200
WorkerProgress(s) ==
  /\ wst[s] = "started"
  /\ WorkerUpdate(s, "processing", [progress |-> 3], "transcribing")

\* lines 203-206: transcribe_audio returned
WorkerTranscribed(s) ==
  /\ wst[s] = "transcribing"
  /\ WorkerUpdate(s, "processing", [progress |-> 9], "transcribed")

\* mutant: the final update leaves progress at 0.9
WorkerCompleteAtNine(s) ==
  /\ wst[s] = "transcribed"
  /\ WorkerUpdate(s, "completed",
                  [completed_at |-> now, result |-> Some("result"),
                   progress |-> 9], "idle")
\* lines 216-223
WorkerComplete(s) ==
  /\ wst[s] = "transcribed"
  /\ WorkerUpdate(s, "completed",
                  [completed_at |-> now, result |-> Some("result"),
                   progress |-> 10], "idle")

\* mutant: the exception escapes and the loop ends
WorkerFailEndsLoop(s) ==
  /\ wst[s] \in {"got", "transcribing"}
  /\ Holds(s, "transcription")
  /\ WorkerUpdate(s, "failed",
                  [completed_at |-> now, error_message |-> Some("error"),
                   progress |-> 0], "stopped")
\* lines 228-245: the model is not loaded (raised before the first update)
\* or transcribe_audio raised
WorkerFail(s) ==
  /\ wst[s] \in {"got", "transcribing"}
  /\ Holds(s, "transcription")
  /\ WorkerUpdate(s, "failed",
                  [completed_at |-> now, error_message |-> Some("error"),
                   progress |-> 0], "idle")

\* RiskDetectionProcessor.process_task lines 112-117
RiskStart(s) ==
  /\ wst[s] = "got"
  /\ Holds(s, "risk_detection")
  /\ WorkerUpdate(s, "processing", [started_at |-> now, progress |-> 1],
                  "risk_started")

\* line 120
RiskProgress(s) ==
  /\ wst[s] = "risk_started"
  /\ WorkerUpdate(s, "processing", [progress |-> 5], "classifying")

\* lines 122-135: call_ollama_api returned
RiskComplete(s) ==
  /\ wst[s] = "classifying"
  /\ WorkerUpdate(s, "completed",
                  [completed_at |-> now, result |-> Some("risk_result"),
                   progress |-> 10], "idle")

\* lines 141-154: call_ollama_api raised 'Failed to analyze risk'
RiskFail(s) ==
  /\ wst[s] = "classifying"
  /\ WorkerUpdate(s, "failed",
                  [completed_at |-> now,
                   error_message |-> Some("Failed to analyze risk"),
                   progress |-> 0], "idle")

\* QueueWorker.run lines 251-258: while self.running, the loop reads the
\* counters and calls pop_task when stats.queued_tasks > 0; otherwise it
\* sleeps poll_interval and looks again (lines 278-282)
WorkerPop(s) ==
  /\ running[s]
  /\ wst[s] = "idle"
  /\ get_queue_stats(s).queued_tasks > 0
  /\ \/ PopTaskMemory(s)
     \/ PopZRevRange(s)

\* ------------------------------------------------------ retry_failed_task
\* the task object get_task_status builds from a stored dict, as a dict
\* again (task.dict() with created_at as isoformat text, push_task line 145)
TaskObjectDict(d) ==
  [d EXCEPT !.created_at = isoformat(fromisoformat(d.created_at))]

\* mutant: the timestamps of the failed attempt are kept
ResetKeepingTimes(d) ==
  [d EXCEPT !.status = "queued", !.retry_count = @ + 1,
            !.error_message = None, !.progress = 0]
\* queue_monitor.py lines 180-186: reset for the retry
ResetForRetry(d) ==
  [d EXCEPT !.status = "queued", !.retry_count = @ + 1,
            !.started_at = None, !.completed_at = None,
            !.error_message = None, !.progress = 0]

\* mutant: the retry count is not compared with max_retries
MayRetryWhateverCount(d) == d.status = "failed"
\* the retry is allowed (lines 172-178)
MayRetry(d) == d.status = "failed" /\ d.retry_count < d.max_retries

\* QueueMonitor.retry_failed_task(task_id) on the monitor's service object s
RetryFailedTask(s, id) ==
  /\ Idle(s)
  /\ LET task == get_task_status(s, id)
     IN IF task # None /\ MayRetry(task[1])
        THEN /\ PushTaskBody(s, ResetForRetry(TaskObjectDict(task[1])))
             /\ ret' = [ret EXCEPT ![s] = "True"]
             /\ submitted' = Append(submitted, <<id, task[1].priority, now>>)
        ELSE /\ ret' = [ret EXCEPT ![s] = "False"]
             /\ UNCHANGED <<redisVars, memVars, stats, submitted>>
  /\ UNCHANGED <<envVars, backup_file, alive, redis_client, peerVars,
                 processing_tasks, last_backup_time, pc, task_id,
                 workerVars, popped, last_sweep, backup_data>>

\* ------------------------------------------- update_task_status, called
\* a call of update_task_status(task_id, status) with no keyword argument
UpdateTaskStatus(s, id, status) ==
  /\ Idle(s)
  /\ LET v == update_task_status(View(s), redis_client[s], id, status,
                                 EmptyMap)
     IN /\ \A f \in DOMAIN ZeroStats :
             /\ v.queue_stats[f] \in -MaxCount..MaxCount
             /\ v.stats[f] \in -MaxCount..MaxCount
        /\ Store(s, v)
        /\ ret' = [ret EXCEPT ![s] = IF v.ok THEN "True" ELSE "False"]
  /\ UNCHANGED <<envVars, queue_priority, memory_queue, backup_file, alive,
                 redis_client, peerVars, last_backup_time, pc, task_id, workerVars,
                 submitted, popped, last_sweep, backup_data>>

\* ----------------------------------------- push_task, a command raising
\* the Redis commands of push_task in program order (lines 149-157)
PushCommands == <<"hset", "zadd", "hincrby_total", "hincrby_queued">>

\* push_task on the Redis path when its k-th command raises (the connection
\* dropped): the commands before it have been applied, the except branch
\* logs and returns False
PushTaskRaises(s, id, priority, k) ==
  /\ Idle(s)
  /\ redis_client[s]
  /\ id \notin IssuedIds
  /\ LET d == TaskData(id, priority, now)
     IN /\ queue_tasks' = IF k > 1 THEN HSet(queue_tasks, id, json_dumps(d))
                          ELSE queue_tasks
        /\ queue_priority' = IF k > 2
                             THEN ZAdd(queue_priority, id, Score(priority, now))
                             ELSE queue_priority
        /\ queue_stats' = IF k > 3 THEN HIncrBy(queue_stats, "total_tasks", 1)
                          ELSE queue_stats
  /\ ret' = [ret EXCEPT ![s] = "False"]
  /\ submitted' = Append(submitted, <<id, priority, now>>)
  /\ UNCHANGED <<envVars, queue_completed, memVars, stats, backup_file, alive,
                 redis_client, peerVars, processing_tasks, last_backup_time, pc,
                 task_id, workerVars, popped, last_sweep, backup_data>>

\* ------------------------------------------------------------ save_backup
\* the index and the records as instance s holds them (what a snapshot is
\* taken of)
IndexOf(v, redis) ==
  IF redis THEN ZRevRangeAll(v.queue_priority) ELSE v.memory_queue
RecordsOf(v, redis) ==
  IF redis
  THEN [id \in DOMAIN v.queue_tasks |-> json_loads(v.queue_tasks[id])]
  ELSE v.memory_tasks

\* lines 382-412: backup_data
BackupData(s) ==
  [queue |-> IF redis_client[s] THEN ZRevRangeAll(queue_priority)
             ELSE memory_queue[s],
   tasks |-> IF redis_client[s] THEN queue_tasks
             ELSE [id \in DOMAIN memory_tasks[s] |->
                     json_dumps(memory_tasks[s][id])],
   completed |-> IF redis_client[s] THEN queue_completed
                 ELSE [id \in DOMAIN memory_completed[s] |->
                         json_dumps(memory_completed[s][id])],
   stats |-> stats[s],
   timestamp |-> isoformat(now),
   processing_tasks |-> [id \in DOMAIN processing_tasks[s] |->
                           isoformat(processing_tasks[s][id])]]

\* a complete pickle of backup_data; origin is a history field: the index
\* and the records the snapshot was taken of
SnapshotFile(l) == [kind |-> "snapshot", data |-> l.data, origin |-> l.origin]

\* lines 382-415: backup_data is built, then open(self.backup_file, 'wb')
\* truncates the file
SaveOpen(s) ==
  /\ Idle(s)
  /\ saves < MaxSaves
  /\ saves' = saves + 1
  /\ backup_data' = [backup_data EXCEPT ![s] =
       Some([data |-> BackupData(s),
             origin |-> [index |-> IndexOf(View(s), redis_client[s]),
                         records |-> RecordsOf(View(s), redis_client[s])]])]
  /\ backup_file' = PartialFile
  /\ pc' = [pc EXCEPT ![s] = "dump"]
  /\ UNCHANGED <<now, ticks, redisVars, alive, redis_client, peerVars, memVars, stats,
                 processing_tasks, last_backup_time, task_id, ret,
                 workerVars, last_sweep, submitted, popped>>

\* lines 416-420: pickle.dump has written everything, the file is closed
SaveDump(s) ==
  /\ alive[s]
  /\ pc[s] = "dump"
  /\ backup_file' = SnapshotFile(backup_data[s][1])
  /\ last_backup_time' = [last_backup_time EXCEPT ![s] = Some(now)]
  /\ backup_data' = [backup_data EXCEPT ![s] = None]
  /\ pc' = [pc EXCEPT ![s] = "idle"]
  /\ ret' = [ret EXCEPT ![s] = "True"]
  /\ UNCHANGED <<envVars, redisVars, alive, redis_client, peerVars, memVars, stats,
                 processing_tasks, task_id, workerVars, last_sweep,
                 submitted, popped>>

\* ------------------------------------------------------------ load_backup
\* lines 445-453: the score of one restored queue item, (task_id, score) or
\* the old format (priority, timestamp, task_id)
\* mutant: the score is taken from the time of the restore
RestoredScoreAtRestoreTime(item) == now
RestoredScore(item) ==
  IF Len(item) = 2 THEN item[2] ELSE item[1] * ScoreFactor + item[2]
RestoredMember(item) == IF Len(item) = 2 THEN item[1] ELSE item[3]

RECURSIVE PriorityMapping(_)
PriorityMapping(queue) ==
  IF queue = <<>> THEN EmptyMap
  ELSE HSet(PriorityMapping(SubSeq(queue, 1, Len(queue) - 1)),
            RestoredMember(queue[Len(queue)]),
            RestoredScore(queue[Len(queue)]))

\* lines 496-500: processing_tasks is replaced only by a non-empty one
RestoredProcessing(old, saved) ==
  IF DOMAIN saved = {} THEN old
  ELSE [id \in DOMAIN saved |-> fromisoformat(saved[id])]

\* mutant: the file is left in place after the restore
FileKeptAfterRestore == backup_file
\* line 505: os.remove(self.backup_file)
FileAfterRestore == NoFile

\* load_backup applied to view v: [view, file, ret]
load_backup(v, redis, file) ==
  IF file.kind = "none"
  THEN [view |-> v, file |-> file, ret |-> "False"]
  \* pickle.load raises on a truncated pickle: logged, False
  ELSE IF file.kind = "partial"
  THEN [view |-> v, file |-> file, ret |-> "False"]
  ELSE LET d == file.data
       IN [view |->
             IF redis
             THEN [v EXCEPT
                     !.queue_priority = PriorityMapping(d.queue),
                     !.queue_tasks = d.tasks,
                     !.queue_completed = d.completed,
                     !.queue_stats = d.stats,
                     !.processing_tasks =
                        RestoredProcessing(@, d.processing_tasks)]
             ELSE [v EXCEPT
                     !.memory_queue = d.queue,
                     !.memory_tasks =
                        [id \in DOMAIN d.tasks |-> json_loads(d.tasks[id])],
                     !.memory_completed =
                        [id \in DOMAIN d.completed |->
                           json_loads(d.completed[id])],
                     !.stats = d.stats,
                     !.processing_tasks =
                        RestoredProcessing(@, d.processing_tasks)],
           file |-> FileAfterRestore,
           ret |-> "restored"]

\* write back everything a view holds
StoreAll(s, v) ==
  /\ Store(s, v)
  /\ queue_priority' = v.queue_priority
  /\ memory_queue' = [memory_queue EXCEPT ![s] = v.memory_queue]

\* load_backup called on a running instance
LoadBackup(s) ==
  /\ Idle(s)
  /\ LET r == load_backup(View(s), redis_client[s], backup_file)
     IN /\ StoreAll(s, r.view)
        /\ backup_file' = r.file
        /\ ret' = [ret EXCEPT ![s] = r.ret]
  /\ UNCHANGED <<envVars, alive, redis_client, peerVars, last_backup_time, pc,
                 task_id, workerVars, backup_data, last_sweep, submitted,
                 popped>>

\* ------------------------------------------------------ process lifecycle
\* the process of instance s dies (kill, power loss): its objects are gone;
\* Redis and the backup file stay as they are
Crash(s) ==
  /\ alive[s]
  /\ alive' = [alive EXCEPT ![s] = FALSE]
  /\ memory_queue' = [memory_queue EXCEPT ![s] = <<>>]
  /\ memory_tasks' = [memory_tasks EXCEPT ![s] = EmptyMap]
  /\ memory_completed' = [memory_completed EXCEPT ![s] = EmptyMap]
  /\ stats' = [stats EXCEPT ![s] = ZeroStats]
  /\ processing_tasks' = [processing_tasks EXCEPT ![s] = EmptyMap]
  /\ last_backup_time' = [last_backup_time EXCEPT ![s] = None]
  /\ pc' = [pc EXCEPT ![s] = "idle"]
  /\ task_id' = [task_id EXCEPT ![s] = None]
  /\ ret' = [ret EXCEPT ![s] = "None"]
  /\ cur' = [cur EXCEPT ![s] = None]
  /\ wst' = [wst EXCEPT ![s] = "idle"]
  /\ backup_data' = [backup_data EXCEPT ![s] = None]
  /\ UNCHANGED <<envVars, redisVars, backup_file, redis_client, peerVars, last_sweep,
                 submitted, popped>>

\* __init__ in a new process: empty fields, _init_redis (connected or the
\* in-memory fallback), then load_backup
Construct(s, connected) ==
  /\ ~alive[s]
  /\ alive' = [alive EXCEPT ![s] = TRUE]
  /\ redis_client' = [redis_client EXCEPT ![s] = connected]
  /\ LET r == load_backup(View(s), connected, backup_file)
     IN /\ StoreAll(s, r.view)
        /\ backup_file' = r.file
        /\ ret' = [ret EXCEPT ![s] = r.ret]
  /\ UNCHANGED <<envVars, last_backup_time, pc, task_id, workerVars,
                 backup_data, last_sweep, submitted, popped, peerVars>>

\* ==================================================== queue_processor.py
\* The single-process deployment (main_queue.py): the HTTP handlers, the
\* websocket endpoints and queue_processor() are coroutines of one asyncio
\* loop. A coroutine runs until it suspends in an await; the processor
\* suspends in asyncio.sleep and, possibly, in each send_text of a
\* broadcast (the keep-alive echo of an endpoint and the periodic backup of
\* the loop touch neither the task statuses nor the registries).

Subs(t) == IF task_subscribers[t] = None THEN {} ELSE task_subscribers[t][1]

\* ------------------------------------------------ TaskQueue, backup file
\* An entry of the stack is written as the id of its task: on the Redis
\* path the entry is the JSON text of the task in the list
\* transcription_queue, on the in-memory path the task's dict in
\* self.memory_queue. tq_queue lists the entries from the top.
StackTasks == WsTasks \cup (1..MaxStackTasks)

\* lpush(key, x) and list.insert(0, x)
LPush(l, x) == <<x>> \o l
Insert0(l, x) == <<x>> \o l

\* lines 262-263 and 272: lrange(key, 0, -1) lists the JSON texts from the
\* head; the in-memory path dumps each dict of the list in list order
SavedQueue(queue) == [i \in 1..Len(queue) |-> json_dumps(queue[i])]

\* lines 266-269 and 273: the records as JSON texts
SavedTasks(tasks) ==
  [t \in {x \in DOMAIN tasks : tasks[x] # None} |-> json_dumps(tasks[t][1])]

\* lines 251-281: the file save_backup writes; origin is a history field,
\* the stack the snapshot was taken of
StackSnapshot(queue, tasks, redis) ==
  [kind |-> "snapshot", queue |-> SavedQueue(queue),
   tasks |-> SavedTasks(tasks), origin |-> queue]

\* line 273: json.dumps raises TypeError on a dict whose created_at is a
\* datetime object
DumpRaises(tasks, created_at) ==
  \E t \in DOMAIN tasks : tasks[t] # None /\ created_at[t] = "datetime"

\* save_backup lines 249-282: the file afterwards; an exception is raised
\* before the file is opened and leaves it as it was
FileAfterStackSave(file, queue, tasks, created_at, redis) ==
  IF ~redis /\ DumpRaises(tasks, created_at) THEN file
  ELSE StackSnapshot(queue, tasks, redis)

\* lines 125-126: pop(0) and task_data['created_at'] = datetime...: the
\* popped dict is the one memory_tasks holds when the task was pushed by
\* this process; the Redis path decodes a copy (lines 105-107)
CreatedAfterPop(created_at, t, redis) ==
  IF ~redis /\ created_at[t] = "shared"
  THEN [created_at EXCEPT ![t] = "datetime"]
  ELSE created_at

\* the ids pushed and not yet popped once t was popped
PendingAfterPop(pending, t) == SelectSeq(pending, LAMBDA x : x # t)

RECURSIVE LPushAll(_, _)
\* lpush of every text of a list, in list order
LPushAll(l, texts) ==
  IF texts = <<>> THEN l
  ELSE LPushAll(LPush(l, json_loads(Head(texts))), Tail(texts))

RECURSIVE AppendAll(_, _)
\* lines 313-316: json.loads and append of every text, in list order
AppendAll(l, texts) ==
  IF texts = <<>> THEN l
  ELSE AppendAll(Append(l, json_loads(Head(texts))), Tail(texts))

\* mutant: the texts are pushed in the order of the file
RestoredQueueUnreversed(texts, redis) ==
  IF redis THEN LPushAll(<<>>, texts) ELSE AppendAll(<<>>, texts)
\* lines 297-305 and 309-316: the restored stack; the Redis path pushes the
\* texts in reversed order, the in-memory path appends them
RestoredQueue(texts, redis) ==
  IF redis THEN LPushAll(<<>>, Reversed(texts)) ELSE AppendAll(<<>>, texts)

\* lines 307-309 and 318-320: the restored records
RestoredTasks(saved) ==
  [t \in StackTasks |-> IF t \in DOMAIN saved THEN Some(json_loads(saved[t]))
                        ELSE None]

\* queue_processor() is suspended, the other coroutines may run
Yielded ==
  \/ proc.stage = "sleep"
  \/ bcast # None /\ bcast[1].sending # None

wsOthers == <<queueVars, riskVars, sigVars, supVars>>

\* lines 139-169: status and the keyword arguments are stored when the task
\* is known; progress is None when the caller passes no progress
TaskQueue_update_task_status(tasks, t, status, progress) ==
  IF tasks[t] = None THEN tasks
  ELSE [tasks EXCEPT ![t] =
          Some([status |-> status,
                progress |-> IF progress = None THEN tasks[t][1].progress
                             ELSE progress[1]])]

\* what update_task_status adds to the history of recorded transitions
Recorded(tasks, t, status, progress) ==
  IF tasks[t] = None THEN recorded
  ELSE Append(recorded,
              <<t, status, TaskQueue_update_task_status(tasks, t, status,
                                                        progress)[t][1].progress>>)

\* lines 615-624: disconnect of every connection of D
ActiveWithout(D) == active_connections \ D
\* mutant: disconnect leaves the subscriber sets as they are
SubscribersKept(D) == task_subscribers
SubscribersWithout(D) ==
  [t \in WsTasks |-> IF task_subscribers[t] = None THEN None
                     ELSE Some(task_subscribers[t][1] \ D)]

\* the set the running broadcast iterates over was changed by c
Touch(t, changed) ==
  IF bcast # None /\ bcast[1].task = t /\ changed
  THEN Some([bcast[1] EXCEPT !.touched = TRUE])
  ELSE bcast

\* main_queue.py lines 67-117: POST /transcribe/ with a fresh uuid4;
\* TaskQueue.push_task lines 78-97 puts the task on top of the stack
QueueTranscription(t) ==
  /\ Yielded
  /\ tq_tasks[t] = None
  /\ tq_tasks' = [tq_tasks EXCEPT ![t] = Some([status |-> "queued", progress |-> 0])]
  /\ tq_queue' = LPush(tq_queue, t)
  /\ tq_pending' = Append(tq_pending, t)
  /\ tq_issued' = tq_issued \cup {t}
  /\ UNCHANGED <<active_connections, task_subscribers, broken, ep, proc,
                 bcast, recorded, published, received, sub_at,
                 tq_redis_client, tq_backup_file, tq_created_at, wsOthers>>

\* main_queue.py lines 190-214: DELETE /task/{task_id} of a queued task;
\* the status is recorded, nothing is broadcast, the stack keeps the task
WsCancelTask(t) ==
  /\ Yielded
  /\ tq_tasks[t] # None
  /\ tq_tasks[t][1].status = "queued"
  /\ tq_tasks' = TaskQueue_update_task_status(tq_tasks, t, "failed", None)
  /\ recorded' = Recorded(tq_tasks, t, "failed", None)
  /\ UNCHANGED <<tq_queue, active_connections, task_subscribers, broken, ep,
                 proc, bcast, published, received, sub_at, stackVars,
                 wsOthers>>

\* main_queue.py lines 146-168, once accept() has returned: connect
\* registers the connection, subscribe_to_task (lines 626-631) adds it to
\* the task's set, and the current status, if the task is known, is
\* written to the socket
WebsocketEndpointOpen(c, t) ==
  /\ Yielded
  /\ ep[c] = "new"
  /\ active_connections' = active_connections \cup {c}
  /\ task_subscribers' = [task_subscribers EXCEPT ![t] = Some(Subs(t) \cup {c})]
  /\ bcast' = Touch(t, c \notin Subs(t))
  /\ sub_at' = [sub_at EXCEPT ![c] = Some(Len(published))]
  /\ received' = [received EXCEPT ![c] =
       IF tq_tasks[t] = None THEN <<>>
       ELSE <<[kind |-> "snapshot", event |-> 0, task |-> t,
               status |-> tq_tasks[t][1].status,
               progress |-> tq_tasks[t][1].progress]>>]
  /\ ep' = [ep EXCEPT ![c] = "open"]
  /\ UNCHANGED <<tq_tasks, tq_queue, broken, proc, recorded, published,
                 stackVars,
                 wsOthers>>

\* the peer of an open connection goes away
ClientDrop(c) ==
  /\ ep[c] = "open"
  /\ c \notin broken
  /\ Cardinality(broken) < MaxDrops
  /\ broken' = broken \cup {c}
  /\ UNCHANGED <<tq_tasks, tq_queue, active_connections, task_subscribers,
                 ep, proc, bcast, recorded, published, received, sub_at,
                 stackVars,
                 wsOthers>>

\* main_queue.py lines 170-179: receive_text raises WebSocketDisconnect,
\* the endpoint calls disconnect (lines 615-624)
WebsocketEndpointClose(c) ==
  /\ Yielded
  /\ ep[c] = "open"
  /\ c \in broken
  /\ active_connections' = ActiveWithout({c})
  /\ task_subscribers' = SubscribersWithout({c})
  /\ bcast' = IF bcast = None THEN None
              ELSE Touch(bcast[1].task, c \in Subs(bcast[1].task))
  /\ ep' = [ep EXCEPT ![c] = "closed"]
  /\ UNCHANGED <<tq_tasks, tq_queue, broken, proc, recorded, published,
                 received, sub_at, stackVars,
                 wsOthers>>

\* lines 633-645: broadcast_task_update up to the for statement; it returns
\* at once when nobody ever subscribed to the task
BroadcastBegin(t, status, progress) ==
  /\ published' = Append(published, [task |-> t, status |-> status,
                                     progress |-> progress,
                                     rec |-> Len(recorded')])
  /\ bcast' = IF task_subscribers[t] = None THEN None
              ELSE Some([task |-> t, event |-> Len(published) + 1,
                         used |-> Cardinality(Subs(t)),
                         visited |-> {}, disconnected |-> {},
                         sending |-> None, touched |-> FALSE,
                         audience |-> Subs(t) \cap active_connections])

\* update_task_status followed by await broadcast_task_update, the pair
\* process_task repeats (lines 516-527, 530-535, 541-546, 556-570, 582-596)
Stage(t, status, progress, stage) ==
  /\ tq_tasks' = TaskQueue_update_task_status(tq_tasks, t, status, Some(progress))
  /\ recorded' = Recorded(tq_tasks, t, status, Some(progress))
  /\ BroadcastBegin(t, status, progress)
  /\ proc' = [stage |-> stage, task |-> Some(t)]

\* lines 685-702: the loop runs on without suspending while the stack
\* holds a task; on an empty stack it awaits asyncio.sleep(1)
AtLoop(queue) == IF queue = <<>> THEN "sleep" ELSE "loop"

\* lines 688-695 and 508-527: at the top of the loop, or woken from the
\* sleep: pop_task takes the top of the stack, process_task starts; without
\* a loaded model it raises at line 513
ProcStart(available) ==
  /\ proc.stage \in {"loop", "sleep"}
  /\ tq_queue # <<>>
  /\ tq_queue' = Tail(tq_queue)
  /\ tq_created_at' = CreatedAfterPop(tq_created_at, Head(tq_queue),
                                      tq_redis_client)
  /\ tq_pending' = PendingAfterPop(tq_pending, Head(tq_queue))
  /\ IF available THEN Stage(Head(tq_queue), "processing", 1, "b1")
     ELSE Stage(Head(tq_queue), "failed", 0, "bf")
  /\ UNCHANGED <<active_connections, task_subscribers, broken, ep, received,
                 sub_at, tq_redis_client, tq_backup_file, tq_issued,
                 wsOthers>>

\* lines 530-535
ProcProgress ==
  /\ proc.stage = "b1"
  /\ bcast = None
  /\ Stage(proc.task[1], "processing", 3, "b2")
  /\ UNCHANGED <<tq_queue, active_connections, task_subscribers, broken, ep,
                 received, sub_at, stackVars,
                 wsOthers>>

\* lines 538-546: transcribe_audio returns or raises
ProcTranscribe(ok) ==
  /\ proc.stage = "b2"
  /\ bcast = None
  /\ IF ok THEN Stage(proc.task[1], "processing", 9, "b3")
     ELSE Stage(proc.task[1], "failed", 0, "bf")
  /\ UNCHANGED <<tq_queue, active_connections, task_subscribers, broken, ep,
                 received, sub_at, stackVars,
                 wsOthers>>

\* lines 548-570
ProcComplete ==
  /\ proc.stage = "b3"
  /\ bcast = None
  /\ Stage(proc.task[1], "completed", 10, "b4")
  /\ UNCHANGED <<tq_queue, active_connections, task_subscribers, broken, ep,
                 received, sub_at, stackVars,
                 wsOthers>>

\* lines 572-573 and 598: process_task returns to the loop
ProcReturn ==
  /\ proc.stage \in {"b4", "bf"}
  /\ bcast = None
  /\ proc' = [stage |-> AtLoop(tq_queue), task |-> None]
  /\ UNCHANGED <<tq_tasks, tq_queue, active_connections, task_subscribers,
                 broken, ep, bcast, recorded, published, received, sub_at,
                 stackVars,
                 wsOthers>>

\* line 646: the for statement asks the set iterator for the next element.
\* The iterator raises RuntimeError when the size of the set differs from
\* the size at its creation. Of a set that was changed and has its old
\* size again, the iterator yields elements in an order that depends on the
\* hashes: any element not yet visited may come next, or none.
IterChanged == Cardinality(Subs(bcast[1].task)) # bcast[1].used

\* lines 647-651: the next subscriber, its send_text is awaited when the
\* connection is registered
BroadcastVisit(c) ==
  /\ bcast # None
  /\ bcast[1].sending = None
  /\ ~IterChanged
  /\ c \in Subs(bcast[1].task) \ bcast[1].visited
  /\ bcast' = Some([bcast[1] EXCEPT
                      !.visited = @ \cup {c},
                      !.sending = IF c \in active_connections THEN Some(c)
                                  ELSE None])
  /\ UNCHANGED <<tq_tasks, tq_queue, active_connections, task_subscribers,
                 broken, ep, proc, recorded, published, received, sub_at,
                 stackVars,
                 wsOthers>>

\* lines 649-653: send_text returns, or raises on a closed socket and the
\* connection is noted for removal
SendReturns ==
  /\ bcast # None
  /\ bcast[1].sending # None
  /\ LET c == bcast[1].sending[1]
         e == published[bcast[1].event]
     IN IF c \in broken
        THEN /\ bcast' = Some([bcast[1] EXCEPT !.sending = None,
                                               !.disconnected = @ \cup {c}])
             /\ UNCHANGED received
        ELSE /\ bcast' = Some([bcast[1] EXCEPT !.sending = None])
             /\ received' = [received EXCEPT ![c] =
                  Append(@, [kind |-> "event", event |-> bcast[1].event,
                             task |-> e.task, status |-> e.status,
                             progress |-> e.progress])]
  /\ UNCHANGED <<tq_tasks, tq_queue, active_connections, task_subscribers,
                 broken, ep, proc, recorded, published, sub_at, stackVars,
                 wsOthers>>

\* lines 655-656: the loop is over, the noted connections are disconnected
BroadcastEnd ==
  /\ bcast # None
  /\ bcast[1].sending = None
  /\ ~IterChanged
  /\ Subs(bcast[1].task) \subseteq bcast[1].visited \/ bcast[1].touched
  /\ active_connections' = ActiveWithout(bcast[1].disconnected)
  /\ task_subscribers' = SubscribersWithout(bcast[1].disconnected)
  /\ bcast' = None
  /\ UNCHANGED <<tq_tasks, tq_queue, broken, ep, proc, recorded, published,
                 received, sub_at, stackVars,
                 wsOthers>>

\* line 646 raises RuntimeError: Set changed size during iteration. Inside
\* the try of process_task the except branch (lines 575-598) records the
\* failure and broadcasts it; raised by that broadcast, the error reaches
\* the except of queue_processor() (lines 712-721), which calls save_backup
\* and sleeps
BroadcastRaises ==
  /\ bcast # None
  /\ bcast[1].sending = None
  /\ IterChanged
  /\ IF proc.stage = "bf"
     THEN /\ proc' = [stage |-> "sleep", task |-> None]
          /\ bcast' = None
          /\ tq_backup_file' =
               FileAfterStackSave(tq_backup_file, tq_queue, tq_tasks,
                                  tq_created_at, tq_redis_client)
          /\ UNCHANGED <<tq_tasks, recorded, published>>
     ELSE /\ Stage(proc.task[1], "failed", 0, "bf")
          /\ UNCHANGED tq_backup_file
  /\ UNCHANGED <<tq_queue, active_connections, task_subscribers, broken, ep,
                 received, sub_at, tq_redis_client, tq_created_at,
                 tq_pending, tq_issued, wsOthers>>

NextWs ==
  \/ \E t \in WsTasks : QueueTranscription(t)
  \/ \E t \in WsTasks : WsCancelTask(t)
  \/ \E c \in Conns, t \in WsTasks : WebsocketEndpointOpen(c, t)
  \/ \E c \in Conns : ClientDrop(c)
  \/ \E c \in Conns : WebsocketEndpointClose(c)
  \/ \E available \in BOOLEAN : ProcStart(available)
  \/ ProcProgress
  \/ \E ok \in BOOLEAN : ProcTranscribe(ok)
  \/ ProcComplete
  \/ ProcReturn
  \/ \E c \in Conns : BroadcastVisit(c)
  \/ SendReturns
  \/ BroadcastEnd
  \/ BroadcastRaises

SpecWs == InitWith({FALSE}) /\ [][NextWs]_vars

\* ================================== queue_worker.py: extract_risk_result
\* A response is a sequence of words separated by blanks. The Thai words
\* are written in transliteration:
\*   khao_khai_phit      U+0E40 0E02 0E49 0E32 0E02 0E48 0E32 0E22 0E1C 0E34 0E14
\*   mai_khao_khai_phit  "mai" (U+0E44 0E21 0E48) followed by khao_khai_phit
\*   khao_khai           the first eight letters of khao_khai_phit
\*   mai_khao_khai       "mai" followed by khao_khai
\*   phit_kotmai         U+0E1C 0E34 0E14 0E01 0E0E 0E2B 0E21 0E32 0E22
\*   mai_phit            "mai" followed by the first three letters of phit_kotmai
\*   mai_mi_khwam_siang  "mai" followed by U+0E21 0E35 0E04 0E27 0E32 0E21
\*                       0E40 0E2A 0E35 0E48 0E22 0E07
\*   chai                U+0E43 0E0A 0E48
\*   mai_chai            "mai" followed by chai
Words ==
  {"<think>", "</think>", "boxed{", "}", "khao_khai_phit",
   "mai_khao_khai_phit", "phit_kotmai", "mai_phit", "mai_mi_khwam_siang",
   "chai", "mai_chai", "yes", "YES", "no", "blah"}

\* the three values returned (lines 79-104): khao_khai_phit, mai_phit and
\* "mai samat wikhro dai"
Violation == "Violation"
NoViolation == "NoViolation"
Undetermined == "Undetermined"

\* str.lower() of one word
lower(w) == IF w = "YES" THEN "yes" ELSE w

\* str.lower() of a text
Lower(text) == [i \in 1..Len(text) |-> lower(text[i])]

\* the keywords of the function that are substrings of a word
Substrings(w) ==
  CASE w = "khao_khai_phit" -> {"khao_khai_phit", "khao_khai"}
    [] w = "mai_khao_khai_phit" ->
         {"mai_khao_khai_phit", "khao_khai_phit", "mai_khao_khai", "khao_khai"}
    [] w = "mai_chai" -> {"mai_chai", "chai"}
    [] w \in {"<think>", "</think>", "boxed{", "}", "blah", "YES"} -> {}
    [] OTHER -> {w}

\* keyword in text
In(keyword, text) == \E i \in 1..Len(text) : keyword \in Substrings(text[i])

\* line 75: re.search(r'<think>[\s\S]*?</think>\s*([\s\S]*?)$'): the text
\* after the first </think> that follows the first <think>, None without
\* such a pair
ThinkMatch(r) ==
  LET opens == {i \in 1..Len(r) : r[i] = "<think>" /\
                  \E j \in (i + 1)..Len(r) : r[j] = "</think>"}
  IN IF opens = {} THEN None
     ELSE LET o == CHOOSE i \in opens : \A k \in opens : i <= k
              c == CHOOSE j \in (o + 1)..Len(r) :
                     /\ r[j] = "</think>"
                     /\ \A k \in (o + 1)..(j - 1) : r[k] # "</think>"
          IN Some(SubSeq(r, c + 1, Len(r)))

\* line 90: re.search(r'\\?boxed\s*\{\s*([^}]+)\s*\}'): the text between
\* the first boxed{ that is closed and its closing brace
BoxedMatch(r) ==
  LET opens == {i \in 1..Len(r) : r[i] = "boxed{" /\
                  \E j \in (i + 1)..Len(r) : r[j] = "}"}
  IN IF opens = {} THEN None
     ELSE LET o == CHOOSE i \in opens : \A k \in opens : i <= k
              c == CHOOSE j \in (o + 1)..Len(r) :
                     /\ r[j] = "}"
                     /\ \A k \in (o + 1)..(j - 1) : r[k] # "}"
          IN Some(SubSeq(r, o + 1, c - 1))

\* lines 76-81: the text after the think block
AfterThinkRule(r) ==
  IF ThinkMatch(r) = None THEN None
  ELSE LET after_think == Lower(ThinkMatch(r)[1])
       IN IF In("khao_khai_phit", after_think) \/ In("phit_kotmai", after_think)
          THEN Some(Violation)
          ELSE IF In("mai_phit", after_think) \/ In("mai_khao_khai", after_think)
          THEN Some(NoViolation)
          ELSE None

\* lines 84-87: direct answers
DirectRule(r) ==
  LET lower_response == Lower(r)
  IN IF In("khao_khai_phit", lower_response) \/ In("phit_kotmai", lower_response)
     THEN Some(Violation)
     ELSE IF \/ In("mai_phit", lower_response)
             \/ In("mai_khao_khai", lower_response)
             \/ In("mai_mi_khwam_siang", lower_response)
     THEN Some(NoViolation)
     ELSE None

\* lines 90-96: boxed answers
BoxedRule(r) ==
  IF BoxedMatch(r) = None THEN None
  ELSE LET boxed_content == Lower(BoxedMatch(r)[1])
       IN IF \/ In("chai", boxed_content)
             \/ In("yes", boxed_content)
             \/ In("khao_khai", boxed_content)
          THEN Some(Violation)
          ELSE IF \/ In("mai_chai", boxed_content)
                  \/ In("no", boxed_content)
                  \/ In("mai_khao_khai", boxed_content)
          THEN Some(NoViolation)
          ELSE None

\* lines 99-102: fallback keyword matching
FallbackRule(r) ==
  LET lower_response == Lower(r)
  IN IF In("chai", lower_response) \/ In("yes", lower_response)
     THEN Some(Violation)
     ELSE IF In("mai_chai", lower_response) \/ In("no", lower_response)
     THEN Some(NoViolation)
     ELSE None

\* mutant: the direct answers are looked for before the think block
extract_risk_result_direct_first(r) ==
  IF DirectRule(r) # None THEN DirectRule(r)[1]
  ELSE IF AfterThinkRule(r) # None THEN AfterThinkRule(r)[1]
  ELSE IF BoxedRule(r) # None THEN BoxedRule(r)[1]
  ELSE IF FallbackRule(r) # None THEN FallbackRule(r)[1]
  ELSE Undetermined

\* lines 69-104
extract_risk_result(r) ==
  IF AfterThinkRule(r) # None THEN AfterThinkRule(r)[1]
  ELSE IF DirectRule(r) # None THEN DirectRule(r)[1]
  ELSE IF BoxedRule(r) # None THEN BoxedRule(r)[1]
  ELSE IF FallbackRule(r) # None THEN FallbackRule(r)[1]
  ELSE Undetermined

\* the responses of at most MaxWords words
Responses == UNION {[1..n -> Words] : n \in 0..MaxWords}

\* queue_worker.py line 123: risk_result = self.extract_risk_result(...)
ExtractRiskResult ==
  /\ verdict = None
  /\ verdict' = Some(extract_risk_result(response))
  /\ UNCHANGED <<response, queueVars, wsVars, sigVars, supVars>>

InitRisk ==
  /\ QueueInit({FALSE})
  /\ WsInit
  /\ response \in Responses
  /\ verdict = None
  /\ SigInit({"service"})
  /\ SupInit

NextRisk == ExtractRiskResult

SpecRisk == InitRisk /\ [][NextRisk]_vars

\* ========================================================= SIGINT, SIGTERM
\* A process that constructs a StandaloneQueueService gets the handler of
\* queue_service.py lines 113-115. The queue service (queue_service.py main)
\* and the HTTP API (queue_http_api.py lines 79-83) keep it; QueueWorker
\* installs its own handler after constructing the service
\* (queue_worker.py lines 168, 172-174), which replaces it.
Kinds == {"service", "api", "worker"}

\* sys.exit / the end of the process: what the process held is gone
SysExit(s) ==
  /\ alive' = [alive EXCEPT ![s] = FALSE]
  /\ memory_queue' = [memory_queue EXCEPT ![s] = <<>>]
  /\ memory_tasks' = [memory_tasks EXCEPT ![s] = EmptyMap]
  /\ memory_completed' = [memory_completed EXCEPT ![s] = EmptyMap]
  /\ stats' = [stats EXCEPT ![s] = ZeroStats]
  /\ processing_tasks' = [processing_tasks EXCEPT ![s] = EmptyMap]
  /\ last_backup_time' = [last_backup_time EXCEPT ![s] = None]
  /\ pc' = [pc EXCEPT ![s] = "idle"]
  /\ task_id' = [task_id EXCEPT ![s] = None]
  /\ ret' = [ret EXCEPT ![s] = "None"]
  /\ cur' = [cur EXCEPT ![s] = None]
  /\ wst' = [wst EXCEPT ![s] = "idle"]
  /\ backup_data' = [backup_data EXCEPT ![s] = None]

\* the file save_backup leaves (queue_service.py lines 379-424): the
\* snapshot, the old file when an exception precedes open(), a truncated
\* file when pickle.dump raises
SaveOutcomes == {"saved", "raised_before_open", "raised_in_dump"}
FileAfterSave(s, outcome) ==
  CASE outcome = "saved" ->
         SnapshotFile([data |-> BackupData(s),
                       origin |-> [index |-> IndexOf(View(s), redis_client[s]),
                                   records |-> RecordsOf(View(s), redis_client[s])]])
    [] outcome = "raised_before_open" -> backup_file
    [] outcome = "raised_in_dump" -> PartialFile

\* queue_service.py lines 134-139: StandaloneQueueService._signal_handler
\* calls save_backup, whose outcome it ignores, then sys.exit(0)
SignalHandler(s, outcome) ==
  /\ alive[s]
  /\ kind[s] \in {"service", "api"}
  /\ signalled' = [signalled EXCEPT ![s] = TRUE]
  /\ exit_saves' = [exit_saves EXCEPT ![s] = @ + 1]
  /\ saves' = saves + 1
  /\ backup_file' = FileAfterSave(s, outcome)
  /\ SysExit(s)
  /\ UNCHANGED <<now, ticks, redisVars, redis_client, last_sweep, submitted,
                 popped, kind, running, wsVars, riskVars, supVars>>

\* queue_worker.py lines 178-181: QueueWorker._signal_handler
WorkerSignalHandler(s) ==
  /\ alive[s]
  /\ kind[s] = "worker"
  /\ running[s]
  /\ running' = [running EXCEPT ![s] = FALSE]
  /\ signalled' = [signalled EXCEPT ![s] = TRUE]
  /\ UNCHANGED <<queueVars, kind, exit_saves, wsVars, riskVars, supVars>>

\* queue_worker.py lines 251, 287 and 310-313: the loop finds running
\* False, run() and main() return, the process ends
WorkerStop(s) ==
  /\ alive[s]
  /\ kind[s] = "worker"
  /\ ~running[s]
  /\ pc[s] = "idle"
  /\ wst[s] = "idle"
  /\ cur[s] = None
  /\ SysExit(s)
  /\ UNCHANGED <<envVars, redisVars, backup_file, redis_client, last_sweep,
                 submitted, popped, sigVars, wsVars, riskVars, supVars>>

\* processes of every kind on one store: the API and the service enqueue,
\* the workers run their loop, each may be sent a signal
InitSignal ==
  /\ QueueInit(BOOLEAN)
  /\ WsInit
  /\ RiskInit
  /\ SigInit(Kinds)
  /\ SupInit

NextSignal ==
  \/ \E s \in Instances, id \in 1..MaxRetryTasks :
       kind[s] # "worker" /\ PushTask(s, id, DefaultPriority)
  \/ \E s \in Instances : kind[s] = "worker" /\ WorkerPop(s)
  \/ \E s \in Instances : PopZRem(s)
  \/ \E s \in Instances : PopHGet(s)
  \/ \E s \in Instances : WorkerStart(s)
  \/ \E s \in Instances : WorkerProgress(s)
  \/ \E s \in Instances : WorkerTranscribed(s)
  \/ \E s \in Instances : WorkerComplete(s)
  \/ \E s \in Instances : WorkerFail(s)
  \/ \E s \in Instances, outcome \in SaveOutcomes : SignalHandler(s, outcome)
  \/ \E s \in Instances : WorkerSignalHandler(s)
  \/ \E s \in Instances : WorkerStop(s)

SpecSignal == InitSignal /\ [][NextSignal]_vars

\* ========================================= start_separated_services.py
\* ServiceManager.services is a dict: a sequence of names in insertion
\* order. A name is [svc, n], n the number of a worker.
Name(svc, n) == [svc |-> svc, n |-> n]
Redis == Name("redis", 0)
QueueApi == Name("queue-api", 0)
QueueWorkerName(i) == Name("queue-worker", i)
MainApi == Name("main-api", 0)

Keys(d) == {d[i] : i \in 1..Len(d)}

\* self.services[name] = process
DictSet(d, name) == IF name \in Keys(d) THEN d ELSE Append(d, name)

\* del self.services[name]
DictRemove(d, names) == SelectSeq(d, LAMBDA x : x \notin names)

\* mutant: the services are stopped in the order of the dict
StopOrderAsStarted(d) == d
\* lines 98-99: reversed(list(self.services.keys()))
StopOrder(d) == Reversed(d)

At(position) == [at |-> position, i |-> 0, todo |-> <<>>]

\* lines 43-63: start_service(name, ...); Popen raises or not
StartService(name, started) ==
  /\ start_log' = Append(start_log, [name |-> name, started |-> started])
  /\ services' = IF started THEN DictSet(services, name) ELSE services
  /\ exited' = IF started THEN exited \ {name} ELSE exited

supOthers == <<queueVars, wsVars, riskVars, sigVars>>

\* lines 170-176 and 151-164: Redis answers a ping, or redis-server is
\* started
StartRedisIfNeeded(outcome) ==
  /\ sup.at = "init"
  /\ IF outcome = "running"
     THEN UNCHANGED <<start_log, services, exited>>
     ELSE StartService(Redis, outcome = "started")
  /\ sup' = IF outcome = "failed" THEN At("failed") ELSE At("queue-api")
  /\ UNCHANGED <<stop_log, supOthers>>

\* lines 178-189
StartQueueApi(started) ==
  /\ sup.at = "queue-api"
  /\ StartService(QueueApi, started)
  /\ sup' = IF started THEN [At("queue-worker") EXCEPT !.i = 1]
            ELSE At("failed")
  /\ UNCHANGED <<stop_log, supOthers>>

\* lines 191-204: one turn of the loop over the workers
StartQueueWorker(started) ==
  /\ sup.at = "queue-worker"
  /\ StartService(QueueWorkerName(sup.i), started)
  /\ sup' = IF ~started THEN At("failed")
            ELSE IF sup.i < NumWorkers THEN [sup EXCEPT !.i = @ + 1]
            ELSE At("main-api")
  /\ UNCHANGED <<stop_log, supOthers>>

\* lines 206-217
StartMainApi(started) ==
  /\ sup.at = "main-api"
  /\ StartService(MainApi, started)
  /\ sup' = IF started THEN At("started") ELSE At("failed")
  /\ UNCHANGED <<stop_log, supOthers>>

\* lines 270-272: start_all_services returned False, sys.exit(1)
StartFailedExit ==
  /\ sup.at = "failed"
  /\ sup' = At("exit")
  /\ UNCHANGED <<services, exited, start_log, stop_log, supOthers>>

\* a child process ends on its own
ChildExits(name) ==
  /\ name \in Keys(services)
  /\ name \notin exited
  /\ exited' = exited \cup {name}
  /\ UNCHANGED <<services, sup, start_log, stop_log, supOthers>>

\* lines 128-145: one turn of monitor_services, the services whose process
\* has stopped are removed from the dict
MonitorServices ==
  /\ sup.at = "started"
  /\ Keys(services) \cap exited # {}
  /\ services' = DictRemove(services, exited)
  /\ UNCHANGED <<exited, sup, start_log, stop_log, supOthers>>

\* lines 36-41 and 93-99: SIGINT or SIGTERM, _signal_handler calls
\* stop_all_services, which lists the names in reverse
StopAllServices ==
  /\ sup.at \in {"init", "queue-api", "queue-worker", "main-api", "started",
                 "failed"}
  /\ sup' = [At("stopping") EXCEPT !.todo = StopOrder(services)]
  /\ UNCHANGED <<services, exited, start_log, stop_log, supOthers>>

\* lines 100 and 65-87: stop_service of the next name, a process still
\* running is terminated
StopService ==
  /\ sup.at = "stopping"
  /\ sup.todo # <<>>
  /\ stop_log' = Append(stop_log, Head(sup.todo))
  /\ exited' = exited \cup {Head(sup.todo)}
  /\ services' = DictRemove(services, {Head(sup.todo)})
  /\ sup' = [sup EXCEPT !.todo = Tail(@)]
  /\ UNCHANGED <<start_log, supOthers>>

\* line 41: sys.exit(0)
SupervisorExit ==
  /\ sup.at = "stopping"
  /\ sup.todo = <<>>
  /\ sup' = At("exit")
  /\ UNCHANGED <<services, exited, start_log, stop_log, supOthers>>

NextSup ==
  \/ \E outcome \in {"running", "started", "failed"} :
       StartRedisIfNeeded(outcome)
  \/ \E started \in BOOLEAN : StartQueueApi(started)
  \/ \E started \in BOOLEAN : StartQueueWorker(started)
  \/ \E started \in BOOLEAN : StartMainApi(started)
  \/ StartFailedExit
  \/ \E name \in Keys(services) : ChildExits(name)
  \/ MonitorServices
  \/ StopAllServices
  \/ StopService
  \/ SupervisorExit

SpecSup == InitWith({FALSE}) /\ [][NextSup]_vars

\* lines 128 and 145: monitor_services looks at the services every 5
\* seconds while self.running
SpecSupFair == SpecSup /\ WF_vars(MonitorServices)

\* ------------------------------------------------- TaskQueue as a stack
stackOthers ==
  <<queueVars, riskVars, sigVars, supVars, active_connections,
    task_subscribers, broken, ep, proc, bcast, recorded, published, received,
    sub_at>>

\* push_task lines 78-97 of a task with a fresh id: lpush and hset, or
\* insert(0, task_data) with the same dict stored in memory_tasks
StackPush(t) ==
  /\ tq_tasks[t] = None
  /\ t \notin tq_issued
  /\ tq_queue' = IF tq_redis_client THEN LPush(tq_queue, t)
                 ELSE Insert0(tq_queue, t)
  /\ tq_tasks' = [tq_tasks EXCEPT ![t] = Some([status |-> "queued",
                                               progress |-> 0])]
  /\ tq_created_at' = [tq_created_at EXCEPT ![t] =
                         IF tq_redis_client THEN "text" ELSE "shared"]
  /\ tq_pending' = Append(tq_pending, t)
  /\ tq_issued' = tq_issued \cup {t}
  /\ UNCHANGED <<tq_redis_client, tq_backup_file, stackOthers>>

\* pop_task lines 99-137 on a stack that holds a task (queue_processor()
\* calls it when get_queue_size() > 0, line 688): lpop, or pop(0) and the
\* assignment of a datetime to created_at of the popped dict, which is the
\* dict memory_tasks holds when the task was pushed by this process
StackPop ==
  /\ tq_queue # <<>>
  /\ tq_queue' = Tail(tq_queue)
  /\ tq_created_at' = CreatedAfterPop(tq_created_at, Head(tq_queue),
                                      tq_redis_client)
  /\ tq_pending' = PendingAfterPop(tq_pending, Head(tq_queue))
  /\ UNCHANGED <<tq_tasks, tq_redis_client, tq_backup_file, tq_issued,
                 stackOthers>>

\* save_backup lines 249-282 (called at lines 668, 709 and 716)
StackSave ==
  /\ tq_backup_file' = FileAfterStackSave(tq_backup_file, tq_queue, tq_tasks,
                                          tq_created_at, tq_redis_client)
  /\ UNCHANGED <<tq_tasks, tq_queue, tq_redis_client, tq_created_at,
                 tq_pending, tq_issued, stackOthers>>

\* the process ends and is started again: TaskQueue.__init__ lines 62-76
\* with Redis reachable as before; the in-memory lists start empty, the
\* Redis keys are as they were left; then load_backup lines 284-336
StackRestart ==
  /\ tq_created_at' = [t \in StackTasks |-> "text"]
  /\ IF tq_backup_file.kind = "snapshot"
     THEN /\ tq_queue' = RestoredQueue(tq_backup_file.queue, tq_redis_client)
          /\ tq_tasks' = RestoredTasks(tq_backup_file.tasks)
          /\ tq_backup_file' = NoFile
          /\ tq_pending' = Reversed(tq_backup_file.origin)
     ELSE /\ tq_queue' = IF tq_redis_client THEN tq_queue ELSE <<>>
          /\ tq_tasks' = IF tq_redis_client THEN tq_tasks
                         ELSE [t \in StackTasks |-> None]
          /\ tq_pending' = IF tq_redis_client THEN tq_pending ELSE <<>>
          /\ UNCHANGED tq_backup_file
  /\ UNCHANGED <<tq_redis_client, tq_issued, stackOthers>>

InitStack ==
  /\ QueueInit({FALSE})
  /\ WsInitWith(BOOLEAN)
  /\ RiskInit
  /\ SigInit({"service"})
  /\ SupInit

NextStack ==
  \/ \E t \in StackTasks : StackPush(t)
  \/ StackPop
  \/ StackSave
  \/ StackRestart

SpecStack == InitStack /\ [][NextStack]_vars

\* ------------------------------------------------------- specifications
\* the process whose service object a sequential scenario drives
Caller == CHOOSE s \in Instances : \A t \in Instances : s <= t

\* one caller enqueues and dequeues on one store
NextOrder ==
  \/ \E d \in {1, ScoreFactor} : Tick(d)
  \/ \E id \in TaskIds, p \in Priorities : PushTask(Caller, id, p)
  \/ PopTaskMemory(Caller)
  \/ PopZRevRange(Caller)
  \/ PopZRem(Caller)
  \/ PopHGet(Caller)

SpecOrder == Init /\ [][NextOrder]_vars

\* one service object: its producer, its worker loop, cancel requests and
\* the sweep
NextLife ==
  \/ Tick(max_processing_time + 1)
  \/ \E id \in TaskIds : PushTask(Caller, id, DefaultPriority)
  \/ WorkerPop(Caller)
  \/ PopZRem(Caller)
  \/ PopHGet(Caller)
  \/ WorkerStart(Caller)
  \/ WorkerProgress(Caller)
  \/ WorkerTranscribed(Caller)
  \/ WorkerComplete(Caller)
  \/ WorkerFail(Caller)
  \/ \E id \in TaskIds : CancelTask(Caller, id)
  \/ CleanupStuckTasks(Caller)

SpecLife == Init /\ [][NextLife]_vars

\* every process enqueues and dequeues, the store commands interleave
NextConc ==
  \/ \E s \in Instances, id \in TaskIds, p \in Priorities : PushTask(s, id, p)
  \/ \E s \in Instances : PopTaskMemory(s)
  \/ \E s \in Instances : PopZRevRange(s)
  \/ \E s \in Instances : PopZRem(s)
  \/ \E s \in Instances : PopHGet(s)

SpecConc == Init /\ [][NextConc]_vars

\* one service object that is saved, killed, restarted and restored, with
\* Redis as reachable after a restart as before; the uuids happen to be
\* issued in increasing order
NextId == Len(submitted) + 1
SubmitNext(s, priority) ==
  /\ NextId \in TaskIds
  /\ PushTask(s, NextId, priority)

NextBackup ==
  \/ Tick(1)
  \/ \E p \in Priorities : SubmitNext(Caller, p)
  \/ PopTaskMemory(Caller)
  \/ PopZRevRange(Caller)
  \/ PopZRem(Caller)
  \/ PopHGet(Caller)
  \/ SaveOpen(Caller)
  \/ SaveDump(Caller)
  \/ LoadBackup(Caller)
  \/ Crash(Caller)
  \/ Construct(Caller, redis_client[Caller])

SpecBackup == Init /\ [][NextBackup]_vars

\* the worker process with both processors: transcription and risk detection
NextWork ==
  \/ \E id \in TaskIds : PushTask(Caller, id, DefaultPriority)
  \/ \E id \in TaskIds : PushRiskTask(Caller, id, DefaultPriority)
  \/ WorkerPop(Caller)
  \/ PopZRem(Caller)
  \/ PopHGet(Caller)
  \/ WorkerStart(Caller)
  \/ WorkerProgress(Caller)
  \/ WorkerTranscribed(Caller)
  \/ WorkerComplete(Caller)
  \/ WorkerFail(Caller)
  \/ RiskStart(Caller)
  \/ RiskProgress(Caller)
  \/ RiskComplete(Caller)
  \/ RiskFail(Caller)

SpecWork == Init /\ [][NextWork]_vars

\* the worker process with both processors, cancel requests and a sweep on
\* its service object
NextProgress ==
  \/ NextWork
  \/ Tick(max_processing_time + 1)
  \/ \E id \in TaskIds : CancelTask(Caller, id)
  \/ CleanupStuckTasks(Caller)

SpecProgress == Init /\ [][NextProgress]_vars

\* the process of queue_monitor.py: a service object of its own
Monitor == CHOOSE s \in Instances : \A t \in Instances : s >= t

\* a worker process and an operator who cancels and retries with the monitor
NextRetry ==
  \/ \E id \in 1..MaxRetryTasks : PushTask(Caller, id, DefaultPriority)
  \/ WorkerPop(Caller)
  \/ PopZRem(Caller)
  \/ PopHGet(Caller)
  \/ WorkerStart(Caller)
  \/ WorkerProgress(Caller)
  \/ WorkerTranscribed(Caller)
  \/ WorkerComplete(Caller)
  \/ WorkerFail(Caller)
  \/ \E id \in TaskIds : CancelTask(Monitor, id)
  \/ \E id \in TaskIds : RetryFailedTask(Monitor, id)

SpecRetry == Init /\ [][NextRetry]_vars

Statuses == {"queued", "processing", "completed", "failed", "cancelled"}

\* update_task_status called with any id and any status
NextUpdate ==
  \/ \E id \in TaskIds : PushTask(Caller, id, DefaultPriority)
  \/ PopTaskMemory(Caller)
  \/ PopZRevRange(Caller)
  \/ PopZRem(Caller)
  \/ PopHGet(Caller)
  \/ \E id \in TaskIds, status \in Statuses :
       UpdateTaskStatus(Caller, id, status)

SpecUpdate == Init /\ [][NextUpdate]_vars

\* push_task against a Redis whose connection may drop at any command
NextFault ==
  \/ \E id \in TaskIds, p \in Priorities : PushTask(Caller, id, p)
  \/ \E id \in TaskIds, p \in Priorities, k \in DOMAIN PushCommands :
       PushTaskRaises(Caller, id, p, k)
  \/ PopTaskMemory(Caller)
  \/ PopZRevRange(Caller)
  \/ PopZRem(Caller)
  \/ PopHGet(Caller)

SpecFault == Init /\ [][NextFault]_vars

\* the process that runs run_periodic_tasks (queue_service.py main): a
\* service object of its own, as QueueWorker.__init__ constructs another
Sweeper == CHOOSE s \in Instances : \A t \in Instances : s >= t

\* a worker process that may hang (take no further step) or die, and the
\* periodic sweep of the queue service process
NextSweep ==
  \/ Tick(max_processing_time + 1)
  \/ \E id \in TaskIds : PushTask(Caller, id, DefaultPriority)
  \/ WorkerPop(Caller)
  \/ PopZRem(Caller)
  \/ PopHGet(Caller)
  \/ WorkerStart(Caller)
  \/ WorkerProgress(Caller)
  \/ WorkerTranscribed(Caller)
  \/ WorkerComplete(Caller)
  \/ WorkerFail(Caller)
  \/ Crash(Caller)
  \/ CleanupStuckTasks(Sweeper)

\* run_periodic_tasks sweeps every minute for as long as its process runs,
\* and the clock advances
SpecSweep ==
  /\ Init
  /\ [][NextSweep]_vars
  /\ WF_vars(CleanupStuckTasks(Sweeper))
  /\ WF_vars(Tick(max_processing_time + 1))

\* a producer and worker processes that all poll the same store; every
\* worker keeps polling and every call of the engine returns or raises
NextPoll ==
  \/ \E id \in TaskIds : PushTask(Caller, id, DefaultPriority)
  \/ \E s \in Instances : WorkerPop(s)
  \/ \E s \in Instances : PopZRem(s)
  \/ \E s \in Instances : PopHGet(s)
  \/ \E s \in Instances : WorkerStart(s)
  \/ \E s \in Instances : WorkerProgress(s)
  \/ \E s \in Instances : WorkerTranscribed(s)
  \/ \E s \in Instances : WorkerComplete(s)
  \/ \E s \in Instances : WorkerFail(s)

WorkerStep(s) ==
  \/ WorkerPop(s)
  \/ PopZRem(s)
  \/ PopHGet(s)
  \/ WorkerStart(s)
  \/ WorkerProgress(s)
  \/ WorkerTranscribed(s)
  \/ WorkerComplete(s)
  \/ WorkerFail(s)

SpecPoll ==
  /\ Init
  /\ [][NextPoll]_vars
  /\ \A s \in Instances : WF_vars(WorkerStep(s))

\* ------------------------------------------- the two paths side by side
\* push_task lines 141-172 as a function of the store: Redis path
\* (hset, zadd, hincrby) or in-memory path (dict, append and sort)
push_task(v, redis, d, t) ==
  IF redis
  THEN [v EXCEPT
          !.queue_tasks = HSet(@, d.task_id, json_dumps(d)),
          !.queue_priority = ZAdd(@, d.task_id, Score(d.priority, t)),
          !.queue_stats =
             HIncrBy(HIncrBy(@, "total_tasks", 1), "queued_tasks", 1)]
  ELSE [v EXCEPT
          !.memory_tasks = HSet(@, d.task_id, d),
          !.memory_queue = ListSort(Append(@, <<d.priority, t, d.task_id>>)),
          !.stats = HIncrBy(HIncrBy(@, "total_tasks", 1), "queued_tasks", 1)]

\* pop_task lines 174-226 run from its first to its last line with no other
\* client of the store in between: [view, task], task the id returned or
\* None
pop_task(v, redis, t) ==
  IF redis
  THEN IF DOMAIN v.queue_priority = {} THEN [view |-> v, task |-> None]
       ELSE LET id == ZMax(v.queue_priority)
                removed == [v EXCEPT !.queue_priority = ZRem(@, id)]
            IN IF HGet(v.queue_tasks, id) = None
               THEN [view |-> removed, task |-> None]
               ELSE [view |->
                       [removed EXCEPT
                          !.queue_stats =
                             HIncrBy(HIncrBy(@, "queued_tasks", -1),
                                     "processing_tasks", 1),
                          !.processing_tasks = HSet(@, id, t)],
                     task |-> Some(id)]
  ELSE IF v.memory_queue = <<>> THEN [view |-> v, task |-> None]
       ELSE LET e == Head(v.memory_queue)
                id == e[Len(e)]
                removed == [v EXCEPT !.memory_queue = Tail(@)]
            IN IF Len(e) = 3 /\ id \in DOMAIN v.memory_tasks
               THEN [view |->
                       [removed EXCEPT
                          !.stats = HIncrBy(HIncrBy(@, "queued_tasks", -1),
                                            "processing_tasks", 1),
                          !.processing_tasks = HSet(@, id, t)],
                     task |-> Some(id)]
               ELSE [view |-> removed, task |-> None]

\* the service object on Redis and the one on the in-memory fallback that
\* are given the same calls
OnRedis == Caller
InMemory == Monitor

\* the stores after one call on each object: the Redis keys as the call on
\* Redis left them, the fields of the other object as its call left them
StorePaths(onRedis, inMemory) ==
  /\ queue_priority' = onRedis.queue_priority
  /\ queue_tasks' = onRedis.queue_tasks
  /\ queue_completed' = onRedis.queue_completed
  /\ queue_stats' = onRedis.queue_stats
  /\ memory_queue' = [memory_queue EXCEPT ![InMemory] = inMemory.memory_queue]
  /\ memory_tasks' = [memory_tasks EXCEPT ![InMemory] = inMemory.memory_tasks]
  /\ memory_completed' =
       [memory_completed EXCEPT ![InMemory] = inMemory.memory_completed]
  /\ stats' = [stats EXCEPT ![InMemory] = inMemory.stats]
  /\ processing_tasks' =
       [processing_tasks EXCEPT ![OnRedis] = onRedis.processing_tasks,
                                ![InMemory] = inMemory.processing_tasks]

PathsIdle ==
  /\ Idle(OnRedis) /\ redis_client[OnRedis]
  /\ Idle(InMemory) /\ ~redis_client[InMemory]

\* push_task(task) on both objects
PathsPush(id, priority) ==
  /\ PathsIdle
  /\ id \notin IssuedIds
  /\ LET d == TaskData(id, priority, now)
     IN StorePaths(push_task(View(OnRedis), TRUE, d, now),
                   push_task(View(InMemory), FALSE, d, now))
  /\ submitted' = Append(submitted, <<id, priority, now>>)
  /\ ret' = [s \in Instances |-> "True"]
  /\ UNCHANGED <<envVars, backup_file, alive, redis_client, peerVars,
                 last_backup_time, pc, task_id, workerVars, popped,
                 last_sweep, backup_data>>

\* pop_task() on both objects; cur is the task each call returned
PathsPop ==
  /\ PathsIdle
  /\ LET onRedis == pop_task(View(OnRedis), TRUE, now)
         inMemory == pop_task(View(InMemory), FALSE, now)
     IN /\ StorePaths(onRedis.view, inMemory.view)
        /\ cur' = [cur EXCEPT ![OnRedis] = onRedis.task,
                              ![InMemory] = inMemory.task]
        /\ ret' = [ret EXCEPT
                     ![OnRedis] = IF onRedis.task = None THEN "None"
                                  ELSE "task",
                     ![InMemory] = IF inMemory.task = None THEN "None"
                                   ELSE "task"]
        /\ popped' =
             popped
               \o (IF onRedis.task = None THEN <<>>
                   ELSE <<(<<OnRedis, onRedis.task[1], Len(submitted), now>>)>>)
               \o (IF inMemory.task = None THEN <<>>
                   ELSE <<(<<InMemory, inMemory.task[1], Len(submitted),
                             now>>)>>)
  /\ UNCHANGED <<envVars, backup_file, alive, redis_client, peerVars,
                 last_backup_time, pc, task_id, wst, submitted, last_sweep,
                 backup_data>>

\* update_task_status(task_id, status) on both objects
PathsUpdate(id, status) ==
  /\ PathsIdle
  /\ LET onRedis == update_task_status(View(OnRedis), TRUE, id, status,
                                       EmptyMap)
         inMemory == update_task_status(View(InMemory), FALSE, id, status,
                                        EmptyMap)
     IN /\ \A f \in DOMAIN ZeroStats :
             /\ onRedis.queue_stats[f] \in -MaxCount..MaxCount
             /\ inMemory.stats[f] \in -MaxCount..MaxCount
        /\ StorePaths(onRedis, inMemory)
        /\ ret' = [ret EXCEPT ![OnRedis] = IF onRedis.ok THEN "True"
                                           ELSE "False",
                              ![InMemory] = IF inMemory.ok THEN "True"
                                            ELSE "False"]
  /\ UNCHANGED <<envVars, backup_file, alive, redis_client, peerVars,
                 last_backup_time, pc, task_id, workerVars, submitted,
                 popped, last_sweep, backup_data>>

\* the second object belongs to a process that is started while Redis does
\* not answer: _init_redis falls back to the in-memory store (lines 119-132)
StartInMemory ==
  \/ redis_client[InMemory] /\ Crash(InMemory)
  \/ Construct(InMemory, FALSE)

\* the calls follow each other within one second
NextPaths ==
  \/ StartInMemory
  \/ \E id \in TaskIds, p \in Priorities : PathsPush(id, p)
  \/ PathsPop
  \/ \E id \in TaskIds, status \in Statuses : PathsUpdate(id, status)

SpecPaths == InitWith({TRUE}) /\ [][NextPaths]_vars

\* one service object that is saved, killed and restarted, with Redis
\* reachable or not after the restart whatever it was before
NextCross ==
  \/ Tick(1)
  \/ \E p \in Priorities : SubmitNext(Caller, p)
  \/ PopTaskMemory(Caller)
  \/ PopZRevRange(Caller)
  \/ PopZRem(Caller)
  \/ PopHGet(Caller)
  \/ SaveOpen(Caller)
  \/ SaveDump(Caller)
  \/ Crash(Caller)
  \/ \E connected \in BOOLEAN : Construct(Caller, connected)

SpecCross == Init /\ [][NextCross]_vars

\* a service object at work on the store (Caller) while further processes,
\* each constructing a StandaloneQueueService of its own, come and go
\* (queue_monitor.py line 21, queue_worker.py line 168, queue_http_api.py)
NextShared ==
  \/ Tick(1)
  \/ \E p \in Priorities : SubmitNext(Caller, p)
  \/ PopTaskMemory(Caller)
  \/ PopZRevRange(Caller)
  \/ PopZRem(Caller)
  \/ PopHGet(Caller)
  \/ SaveOpen(Caller)
  \/ SaveDump(Caller)
  \/ Crash(Monitor)
  \/ \E connected \in BOOLEAN : Construct(Monitor, connected)

SpecShared == Init /\ [][NextShared]_vars

\* --------------------------------------------------- ordering properties
SubmissionOf(id) == CHOOSE i \in DOMAIN submitted : submitted[i][1] = id
PriorityOf(id) == submitted[SubmissionOf(id)][2]
\* submitted before the first pop_task call
BeforeFirstPop(id) == popped # <<>> /\ SubmissionOf(id) <= popped[1][3]

\* C2: of two tasks enqueued before the first dequeue, the one with the
\* higher priority is never returned by pop_task after the other one,
\* whatever the order and the times of their submission.
C2_PriorityOrder ==
  \A i, j \in DOMAIN popped :
    (/\ i < j
     /\ BeforeFirstPop(popped[i][2])
     /\ BeforeFirstPop(popped[j][2]))
    => PriorityOf(popped[i][2]) >= PriorityOf(popped[j][2])

\* C3: tasks of equal priority are returned by pop_task in submission
\* order, earliest first, on the Redis path and on the in-memory path.
C3_FifoTieBreak ==
  \A i, j \in DOMAIN popped :
    (/\ i < j
     /\ BeforeFirstPop(popped[i][2])
     /\ BeforeFirstPop(popped[j][2])
     /\ PriorityOf(popped[i][2]) = PriorityOf(popped[j][2]))
    => SubmissionOf(popped[i][2]) < SubmissionOf(popped[j][2])

\* ------------------------------------------------ concurrency properties
\* C1: concurrent pop_task calls on one shared store return distinct task
\* ids: no id is handed to two callers for one enqueue.
C1_DistinctIds ==
  \A i, j \in DOMAIN popped : i # j => popped[i][2] # popped[j][2]

\* -------------------------------------------------- lifecycle properties
TerminalStatuses == {"completed", "failed", "cancelled"}
Known(s, id) == get_task_status(s, id) # None
StatusOf(s, id) == get_task_status(s, id)[1].status
\* the id waits in the priority index instance s dequeues from
InIndex(s, id) ==
  IF redis_client[s] THEN id \in DOMAIN queue_priority
  ELSE \E i \in DOMAIN memory_queue[s] :
         memory_queue[s][i][Len(memory_queue[s][i])] = id

\* C4: once the status of a task is Completed, Failed or Cancelled, no
\* later step changes its stored record.
C4_TerminalIsFinal ==
  [][\A s \in Instances, id \in TaskIds :
       (Known(s, id) /\ StatusOf(s, id) \in TerminalStatuses)
       => get_task_status(s, id)' = get_task_status(s, id)]_vars

\* C5: a task whose status is Cancelled is not in the priority index, so
\* no later pop_task returns it.
C5_CancelledLeavesIndex ==
  \A s \in Instances, id \in TaskIds :
    (Known(s, id) /\ StatusOf(s, id) = "cancelled") => ~InIndex(s, id)

\* C6: only a task still waiting in the priority index becomes Cancelled;
\* a cancel request for a task that pop_task has removed is refused.
C6_CancelOnlyWhileIndexed ==
  [][\A s \in Instances, id \in TaskIds :
       (/\ Known(s, id)
        /\ StatusOf(s, id) # "cancelled"
        /\ StatusOf(s, id)' = "cancelled")
       => InIndex(s, id)]_vars

\* C7: a sweep on the instance that dequeued a task more than
\* max_processing_time ago, the task having no terminal status, leaves the
\* task Failed with the timeout message and out of the in-flight registry,
\* whether or not the worker reported progress since the dequeue.
C7_SweepFailsStuck ==
  [][\A s \in Instances :
       CleanupStuckTasks(s) =>
         \A i \in DOMAIN popped :
           LET id == popped[i][2]
           IN (/\ popped[i][1] = s
               /\ now - popped[i][4] > max_processing_time
               /\ StatusOf(s, id) \notin TerminalStatuses)
              => /\ StatusOf(s, id)' = "failed"
                 /\ get_task_status(s, id)[1].error_message'
                      = Some(TimeoutMessage)
                 /\ id \notin DOMAIN processing_tasks'[s]]_vars

\* ------------------------------------------------- bookkeeping properties
\* the id is in the in-flight registry of some process
InFlight(id) == \E t \in Instances : id \in DOMAIN processing_tasks[t]
\* the id is in the completed set instance s reads
InCompleted(s, id) ==
  IF redis_client[s] THEN id \in DOMAIN queue_completed
  ELSE id \in DOMAIN memory_completed[s]
\* no pop_task call is between two of its store commands
NoPopRunning == \A t \in Instances : pc[t] = "idle"
PlacesOf(s, id) ==
  {p \in {"index", "in-flight", "completed"} :
     \/ p = "index" /\ InIndex(s, id)
     \/ p = "in-flight" /\ InFlight(id)
     \/ p = "completed" /\ InCompleted(s, id)}

\* C11: between operations every known task id is in exactly one of the
\* priority index, the in-flight registry and the completed set.
C11_ExactlyOnePlace ==
  NoPopRunning =>
    \A s \in Instances, id \in TaskIds :
      Known(s, id) => Cardinality(PlacesOf(s, id)) = 1

\* C12: a task that pop_task has handed out is in the in-flight registry
\* for as long as its status is not terminal.
C12_InFlightUntilTerminal ==
  \A i \in DOMAIN popped :
    LET s == popped[i][1]
        id == popped[i][2]
    IN (Known(s, id) /\ StatusOf(s, id) \notin TerminalStatuses)
       => InFlight(id)

\* C13: the stored record of a task that pop_task has handed to a caller
\* does not have status Queued any more.
C13_PopMarksProcessing ==
  \A i \in DOMAIN popped :
    Known(popped[i][1], popped[i][2])
    => StatusOf(popped[i][1], popped[i][2]) # "queued"

\* C14: a step that gives a task a terminal status (Completed, Failed or
\* Cancelled) leaves its record in the completed set and its id out of the
\* in-flight registry.
C14_TerminalMovesToCompleted ==
  [][\A s \in Instances, id \in TaskIds :
       (/\ Known(s, id)
        /\ StatusOf(s, id) \notin TerminalStatuses
        /\ StatusOf(s, id)' \in TerminalStatuses)
       => /\ InCompleted(s, id)'
          /\ ~InFlight(id)']_vars

\* ------------------------------------------------------ update contract
\* C15: update_task_status for an id that was never enqueued returns False
\* and leaves records, index, counters and in-flight registry unchanged.
C15_UnknownIdRejected ==
  [][\A s \in Instances, id \in TaskIds, status \in Statuses :
       (UpdateTaskStatus(s, id, status) /\ id \notin IssuedIds)
       => /\ ret'[s] = "False"
          /\ UNCHANGED <<redisVars, memVars, stats, processing_tasks>>]_vars

\* an update for a never-enqueued id has just returned False on a store
\* that holds another task, in flight
C15_Witness ==
  \E s \in Instances :
    /\ ret[s] = "False"
    /\ processing_tasks[s] # EmptyMap
    /\ TaskIds \ IssuedIds # {}

\* ------------------------------------------------------ retry properties
PushCount(id) == Cardinality({i \in DOMAIN submitted : submitted[i][1] = id})

\* C16: retry_failed_task on a known task whose status is Failed and whose
\* retry_count is below max_retries leaves it Queued in the index with
\* retry_count + 1, progress 0 and no started_at / completed_at; on a task
\* in any other condition it returns False and changes nothing.
C16_RetryOnlyFailed ==
  [][\A s \in Instances, id \in TaskIds :
       (RetryFailedTask(s, id) /\ Known(s, id))
       => LET d == get_task_status(s, id)[1]
          IN IF d.status = "failed" /\ d.retry_count < d.max_retries
             THEN /\ ret'[s] = "True"
                  /\ InIndex(s, id)'
                  /\ StatusOf(s, id)' = "queued"
                  /\ get_task_status(s, id)[1].retry_count'
                       = d.retry_count + 1
                  /\ get_task_status(s, id)[1].progress' = 0
                  /\ get_task_status(s, id)[1].started_at' = None
                  /\ get_task_status(s, id)[1].completed_at' = None
             ELSE /\ ret'[s] = "False"
                  /\ UNCHANGED <<redisVars, memVars, stats,
                                 processing_tasks>>]_vars

\* a failed task is queued again after its first retry
C16_Witness ==
  \E s \in Instances, id \in TaskIds :
    /\ ret[s] = "True"
    /\ s = Monitor
    /\ Known(s, id)
    /\ StatusOf(s, id) = "queued"
    /\ get_task_status(s, id)[1].retry_count = 1
    /\ InIndex(s, id)

PopCount(id) == Cardinality({i \in DOMAIN popped : popped[i][2] = id})

\* C18: when transcribe_audio or the classifier raises, the worker leaves
\* the task Failed with an error message, out of the index and not held any
\* more, and is back at the top of its loop; no task is handed out twice.
C18_FailureIsRecorded ==
  /\ [](\A id \in TaskIds : PopCount(id) <= 1)
  /\ [][\A s \in Instances, id \in TaskIds :
          ((WorkerFail(s) \/ RiskFail(s)) /\ cur[s] = Some(id))
          => /\ StatusOf(s, id)' = "failed"
             /\ get_task_status(s, id)[1].error_message' # None
             /\ ~InIndex(s, id)'
             /\ cur'[s] = None
             /\ wst'[s] = "idle"
             /\ alive'[s]]_vars

\* the classifier raised for one task, transcribe_audio for another, and
\* the worker is polling again
C18_Witness ==
  \E s \in Instances, a, b \in TaskIds :
    /\ wst[s] = "idle"
    /\ Known(s, a) /\ Known(s, b)
    /\ StatusOf(s, a) = "failed"
    /\ get_task_status(s, a)[1].task_type = "risk_detection"
    /\ get_task_status(s, a)[1].error_message
         = Some("Failed to analyze risk")
    /\ StatusOf(s, b) = "failed"
    /\ get_task_status(s, b)[1].task_type = "transcription"
    /\ get_task_status(s, b)[1].started_at # None

\* the task was dequeued more than max_processing_time ago and its record,
\* as the dequeuing process reads it, has no terminal status
Overdue(id) ==
  \E i \in DOMAIN popped :
    /\ popped[i][2] = id
    /\ now - popped[i][4] > max_processing_time
    /\ Known(popped[i][1], id)
    /\ StatusOf(popped[i][1], id) \notin TerminalStatuses

\* C19: a task dequeued more than max_processing_time ago whose worker hangs
\* or has died does not stay without a terminal status forever: the periodic
\* sweep of the queue service process eventually fails it.
C19_StuckEventuallyFailed ==
  \A id \in TaskIds : Overdue(id) ~> ~Overdue(id)

\* ------------------------------------------------------- push properties
\* instance s runs push_task for a new task in this step, to either outcome
PushStep(s, id, priority) ==
  \/ PushTask(s, id, priority)
  \/ \E k \in DOMAIN PushCommands : PushTaskRaises(s, id, priority, k)

\* C20: a push_task that returns True has stored the record and the index
\* entry, and a push_task that returns False has changed neither records,
\* index nor counters.
C20_PushAllOrNothing ==
  [][\A s \in Instances, id \in TaskIds, priority \in Priorities :
       PushStep(s, id, priority)
       => /\ ret'[s] = "True" => (Known(s, id)' /\ InIndex(s, id)')
          /\ ret'[s] = "False" => UNCHANGED <<redisVars, memVars, stats>>]_vars

\* ------------------------------------------------ degraded-mode property
\* C21: a push_task on an instance whose Redis has become unreachable falls
\* back to the in-process store and returns True.
C21_FallbackOnOutage ==
  [][\A s \in Instances, id \in TaskIds, priority \in Priorities :
       PushStep(s, id, priority) => ret'[s] = "True"]_vars

\* ------------------------------------------------------ counter property
TasksWithStatus(s, status) ==
  {id \in TaskIds : Known(s, id) /\ StatusOf(s, id) = status}

\* C22: between operations get_queue_stats reports for queued, processing,
\* completed and failed the number of tasks that have that status.
C22_StatsMatchStatuses ==
  NoPopRunning =>
    \A s \in Instances :
      /\ get_queue_stats(s).queued_tasks
           = Cardinality(TasksWithStatus(s, "queued"))
      /\ get_queue_stats(s).processing_tasks
           = Cardinality(TasksWithStatus(s, "processing"))
      /\ get_queue_stats(s).completed_tasks
           = Cardinality(TasksWithStatus(s, "completed"))
      /\ get_queue_stats(s).failed_tasks
           = Cardinality(TasksWithStatus(s, "failed"))

Delivered(c, k) ==
  \E i \in 1..Len(received[c]) :
    received[c][i].kind = "event" /\ received[c][i].event = k

\* the running broadcast of event k to the subscribers of t is left in this
\* step, by its return or by an exception
BroadcastOver(t, k) ==
  /\ bcast # None
  /\ bcast[1].task = t
  /\ bcast[1].event = k
  /\ bcast' = None \/ bcast'[1].event # k

\* C24: when broadcast_task_update delivers an event and the send to a
\* connection x raises, then once the broadcast is over every other
\* connection that was subscribed to the task (and whose own socket is
\* sound) has received the event and is still registered and subscribed,
\* and x is in neither the connection registry nor the subscriber set.
C24_BroadcastIsolation ==
  [][\A t \in WsTasks, k \in 1..Len(published), x \in Conns :
       (BroadcastOver(t, k) /\ x \in bcast[1].disconnected) =>
          /\ x \notin active_connections'
          /\ x \notin task_subscribers'[t][1]
          /\ \A y \in (bcast[1].audience \ {x}) \ broken :
                /\ Delivered(y, k)'
                /\ y \in active_connections'
                /\ y \in task_subscribers'[t][1]]_vars

\* nothing is running: the processor sleeps and no broadcast is under way
WsQuiet == proc.stage = "sleep" /\ bcast = None

\* the events written to c, in the order of writing
EventsOf(c) ==
  SelectSeq(received[c], LAMBDA msg : msg.kind = "event")

\* C25: every status transition recorded for a task is pushed as an event
\* to the connections subscribed to the task, in the order of recording:
\* once the processor is at rest, each recorded transition has been
\* published, each sound connection has every event of its task published
\* since it subscribed, and it got them in the order of the transitions.
C25_TransitionsPushedInOrder ==
  WsQuiet =>
    /\ \A r \in 1..Len(recorded) :
         \E k \in 1..Len(published) : published[k].rec = r
    /\ \A c \in active_connections \ broken, t \in WsTasks :
         c \in Subs(t) =>
           \A k \in 1..Len(published) :
             (published[k].task = t /\ k > sub_at[c][1]) => Delivered(c, k)
    /\ \A c \in Conns :
         \A i, j \in 1..Len(EventsOf(c)) :
           i < j => published[EventsOf(c)[i].event].rec
                      < published[EventsOf(c)[j].event].rec

\* C26: a connection that subscribes to a task is sent at once one snapshot
\* of the task's current status, and afterwards only events published after
\* its subscription: no event published before it subscribed reaches it,
\* and no second snapshot.
C26_SnapshotThenNewEvents ==
  /\ [](\A c \in Conns : \A i \in 1..Len(received[c]) :
          /\ received[c][i].kind = "snapshot" => i = 1
          /\ received[c][i].kind = "event" =>
               received[c][i].event > sub_at[c][1])
  /\ [][\A c \in Conns, t \in WsTasks :
          (WebsocketEndpointOpen(c, t) /\ tq_tasks[t] # None) =>
             /\ Len(received'[c]) = 1
             /\ received'[c][1].kind = "snapshot"
             /\ received'[c][1].status = tq_tasks[t][1].status
             /\ received'[c][1].progress = tq_tasks[t][1].progress]_vars

\* the verdict of the first rule of the list that matches, None if none does
RECURSIVE FirstMatch(_)
FirstMatch(outcomes) ==
  IF outcomes = <<>> THEN None
  ELSE IF Head(outcomes) # None THEN Head(outcomes)
  ELSE FirstMatch(Tail(outcomes))

RulesInOrder(r) ==
  <<AfterThinkRule(r), DirectRule(r), BoxedRule(r), FallbackRule(r)>>

\* C27: extract_risk_result applies its rules in the order (1) text after
\* the think block, (2) direct phrases, (3) yes/no inside a boxed answer,
\* (4) yes/no anywhere; the verdict is that of the first rule that matches,
\* Undetermined exactly when none matches; "<think> ... </think>
\* khao_khai_phit" gives Violation, "mai_phit" NoViolation and "blah blah"
\* Undetermined.
C27_FirstMatchingRuleWins ==
  verdict # None =>
    /\ FirstMatch(RulesInOrder(response)) # None =>
         verdict = FirstMatch(RulesInOrder(response))
    /\ verdict = Some(Undetermined) <=>
         FirstMatch(RulesInOrder(response)) = None
    /\ response = <<"<think>", "blah", "</think>", "khao_khai_phit">> =>
         verdict = Some(Violation)
    /\ response = <<"mai_phit">> => verdict = Some(NoViolation)
    /\ response = <<"blah", "blah">> => verdict = Some(Undetermined)

\* a response whose think block and trailing text disagree, and whose
\* verdict was taken from the trailing text before the direct phrases
C27_Witness ==
  /\ verdict = Some(NoViolation)
  /\ AfterThinkRule(response) = Some(NoViolation)
  /\ DirectRule(response) = Some(Violation)

\* the phrases of lines 84 and 86
ViolationPhrases == {"khao_khai_phit", "phit_kotmai"}
NoViolationPhrases == {"mai_phit", "mai_khao_khai", "mai_mi_khwam_siang"}

\* C28: when the response has a think block followed by trailing text that
\* contains a violation or non-violation phrase, the verdict is the one the
\* trailing text alone gives, whatever the think block holds.
C28_TrailingTextDecides ==
  (/\ verdict # None
   /\ ThinkMatch(response) # None
   /\ \E p \in ViolationPhrases \cup NoViolationPhrases :
        In(p, Lower(ThinkMatch(response)[1])))
  => verdict = Some(extract_risk_result(ThinkMatch(response)[1]))

\* C29: when a process that owns a StandaloneQueueService (queue service,
\* HTTP API or worker) receives SIGINT or SIGTERM, save_backup is attempted
\* exactly once before the process exits, and it exits whether or not the
\* save succeeds: a process that was signalled and has exited made exactly
\* one attempt, and the handler's step ends the process on every outcome of
\* the save.
C29_SaveAttemptedOnSignal ==
  /\ [](\A s \in Instances :
          (signalled[s] /\ ~alive[s]) => exit_saves[s] = 1)
  /\ [][\A s \in Instances, outcome \in SaveOutcomes :
          SignalHandler(s, outcome) => ~alive'[s]]_vars

\* the order the claim gives: the store, the queue API, the workers, the
\* main API
StartOrder ==
  <<Redis, QueueApi>> \o [i \in 1..NumWorkers |-> QueueWorkerName(i)]
    \o <<MainApi>>

\* position of a name in a sequence of distinct names
Position(name, l) == CHOOSE i \in 1..Len(l) : l[i] = name

\* C30: start_all_services starts the store, the queue API, the workers
\* and the main API in that order and starts no later service once an
\* earlier one failed to start; stop_all_services stops the running
\* services in the reverse of their start order.
C30_OrderedStartReverseStop ==
  /\ \A i, j \in 1..Len(start_log) :
       i < j => /\ Position(start_log[i].name, StartOrder)
                     < Position(start_log[j].name, StartOrder)
                /\ start_log[i].started
  /\ \A i, j \in 1..Len(stop_log) :
       i < j => Position(stop_log[i], StartOrder)
                  > Position(stop_log[j], StartOrder)
  /\ sup.at = "exit" /\ stop_log # <<>> => services = <<>>

\* every service was started, and all of them have been stopped
C30_Witness ==
  /\ sup.at = "exit"
  /\ Len(start_log) = Len(StartOrder)
  /\ Len(stop_log) = Len(StartOrder)

ServiceNames ==
  {Redis, QueueApi, MainApi} \cup {QueueWorkerName(i) : i \in 1..NumWorkers}

\* C31: a supervised service whose process has exited while the manager is
\* monitoring is eventually running again (or the manager has been told to
\* stop)
C31_RestartOnCrash ==
  \A name \in ServiceNames :
    (sup.at = "started" /\ name \in exited)
      ~> ((name \in Keys(services) /\ name \notin exited)
            \/ sup.at # "started")

\* the negative forms: "mai khao khai phit" and the no-token "mai chai"
NegativeForms == {"mai_khao_khai_phit", "mai_chai"}

\* the only verdict wording of the response is a negative form, alone, in
\* neutral text or inside a boxed answer
OnlyNegativeWording(r) ==
  /\ \E i \in 1..Len(r) : r[i] \in NegativeForms
  /\ \A i \in 1..Len(r) : r[i] \in NegativeForms \cup {"blah", "boxed{", "}"}

\* C40: extract_risk_result returns NoViolation, never Violation, for a
\* response whose only verdict wording is a negative form: the phrase
\* "mai khao khai phit", or the no-token "mai chai" alone or inside a boxed
\* answer.
C40_NegativeFormsGiveNoViolation ==
  (verdict # None /\ OnlyNegativeWording(response))
    => verdict = Some(NoViolation)

\* C39: every connection id in any task's subscriber set is also in the
\* connection registry: connect, subscribe, disconnect and failed
\* deliveries leave no subscriber entry of a removed connection.
C39_SubscribersAreRegistered ==
  \A t \in WsTasks : Subs(t) \subseteq active_connections

\* a connection whose delivery failed was removed by the broadcast while
\* its endpoint is still open, and another connection is still subscribed
C39_Witness ==
  \E c \in Conns, t \in WsTasks :
    /\ ep[c] = "open"
    /\ c \in broken
    /\ c \notin active_connections
    /\ Subs(t) # {}

\* C38: a connection that subscribes to or disconnects from a task while
\* the broadcast of an event of that task is suspended in a send does not
\* abort the broadcast: when the broadcast is over, every sound connection
\* that was subscribed from its start to its end has received the event,
\* and the step that ends a broadcast whose subscriber set was changed
\* leaves the recorded status of the task as it was.
C38_SubscriptionChangeDoesNotAbort ==
  [][\A t \in WsTasks, k \in 1..Len(published) :
       BroadcastOver(t, k) =>
         /\ \A y \in (bcast[1].audience \cap task_subscribers'[t][1]) \ broken :
              Delivered(y, k)'
         /\ bcast[1].touched => tq_tasks'[t] = tq_tasks[t]]_vars

\* C32: in every reachable state a task record has a result only when its
\* status is completed and an error_message only when its status is failed
\* or cancelled.
C32_ResultAndErrorMatchStatus ==
  \A s \in Instances, id \in TaskIds :
    Known(s, id) =>
      LET task == get_task_status(s, id)[1]
      IN /\ task.result # None => task.status = "completed"
         /\ task.error_message # None =>
              task.status \in {"failed", "cancelled"}

\* C34: constructing a further StandaloneQueueService on a Redis store
\* that another live service object uses removes or reverts none of the
\* store's tasks: every member of the priority index stays a member, and
\* every active and every completed record stays as it was, also when a
\* snapshot file of an earlier save_backup is present.
C34_ConstructKeepsStore ==
  [][(Construct(Monitor, TRUE) /\ alive[Caller] /\ redis_client[Caller]) =>
       /\ DOMAIN queue_priority \subseteq DOMAIN queue_priority'
       /\ \A id \in DOMAIN queue_tasks :
            id \in DOMAIN queue_tasks' /\ queue_tasks'[id] = queue_tasks[id]
       /\ \A id \in DOMAIN queue_completed :
            /\ id \in DOMAIN queue_completed'
            /\ queue_completed'[id] = queue_completed[id]]_vars

\* the task ids that pop_task calls return until the index is empty, in
\* order, when nothing else touches the store: on the Redis path the
\* members by descending score whose record hget finds (lines 179-191), on
\* the in-memory path the entries of the list from its head that unpack
\* into three fields and whose record exists (lines 204-206)
RECURSIVE PopOrder(_, _, _)
PopOrder(index, records, redis) ==
  IF index = <<>> THEN <<>>
  ELSE LET e == Head(index)
           id == IF redis THEN e[1] ELSE e[Len(e)]
           returned == id \in DOMAIN records /\ (redis \/ Len(e) = 3)
       IN (IF returned THEN <<id>> ELSE <<>>)
            \o PopOrder(Tail(index), records, redis)

\* the snapshot in the file was saved on the Redis path
SavedOnRedis == Len(backup_file.data.queue[1]) = 2

\* C37: a snapshot saved on the Redis path is restored by an instance on
\* the in-memory fallback, and the reverse: after the load_backup of the
\* constructor the pop_task calls return every task that was queued in the
\* snapshot, in the order the saving instance would have dequeued them.
C37_CrossModeRestore ==
  [][\A s \in Instances, connected \in BOOLEAN :
       (/\ Construct(s, connected)
        /\ backup_file.kind = "snapshot"
        /\ backup_file.data.queue # <<>>
        /\ SavedOnRedis # connected)
       => PopOrder(IndexOf(View(s), connected)', RecordsOf(View(s), connected)',
                   connected)
            = PopOrder(backup_file.origin.index, backup_file.origin.records,
                       SavedOnRedis)]_vars

\* the records, the completed set and the counters of the two objects
PathStatuses(s) ==
  [id \in {x \in TaskIds : Known(s, x)} |-> StatusOf(s, id)]
PathCompleted(s) ==
  IF redis_client[s] THEN DOMAIN queue_completed
  ELSE DOMAIN memory_completed[s]

\* C36: given the same sequence of push_task, pop_task and
\* update_task_status calls, the object on Redis and the object on the
\* in-memory fallback return the same task from every pop_task and hold
\* the same task statuses, completed set and counters.
C36_PathsEquivalent ==
  /\ [](/\ PathStatuses(OnRedis) = PathStatuses(InMemory)
        /\ PathCompleted(OnRedis) = PathCompleted(InMemory)
        /\ get_queue_stats(OnRedis) = get_queue_stats(InMemory))
  /\ [][PathsPop => cur'[OnRedis] = cur'[InMemory]]_vars

Terminal(id) ==
  \E s \in Instances :
    /\ Known(s, id)
    /\ StatusOf(s, id) \in {"completed", "failed", "cancelled"}

\* C35: every task for which push_task returned True is eventually
\* dequeued and reaches a terminal status when the workers keep polling
\* and every engine call returns or raises: the poll gate
\* stats.queued_tasks > 0 is not false forever while the priority index
\* holds a task, also with several workers polling concurrently.
C35_PushedTaskIsProcessed ==
  \A id \in TaskIds : (id \in IssuedIds) ~> Terminal(id)

\* ---- C33 ----
\* C33: the stack variant TaskQueue pops in reverse push order: pop_task
\* returns the most recently pushed task not yet popped, with the store and
\* in memory, and a process started again from a backup file pops the saved
\* tasks in the order they had when save_backup wrote the file.
C33_StackOrderKept ==
  /\ [][StackPop => /\ tq_pending # <<>>
                    /\ Head(tq_queue) = tq_pending[Len(tq_pending)]]_vars
  /\ [][(StackRestart /\ tq_backup_file.kind = "snapshot")
          => tq_queue' = tq_backup_file.origin]_vars

\* in memory only a restored task keeps a textual created_at once popped:
\* two tasks were restored from a backup file, one of them was popped since
\* and the other one is at the top of the stack
C33_Witness ==
  /\ ~tq_redis_client
  /\ tq_queue # <<>>
  /\ tq_created_at[Head(tq_queue)] = "text"
  /\ \E t \in tq_issued :
       /\ tq_tasks[t] # None
       /\ tq_created_at[t] = "text"
       /\ \A k \in 1..Len(tq_queue) : tq_queue[k] # t

\* ----------------------------------------------------- backup properties
\* instance s runs load_backup in this step (called directly or by __init__)
LoadStep(s) == LoadBackup(s) \/ \E c \in BOOLEAN : Construct(s, c)

\* C8: load_backup of a complete snapshot leaves the store with the priority
\* index (members, scores, order) and the task records that the saving
\* store had when save_backup took the snapshot.
C8_BackupRoundTrip ==
  [][\A s \in Instances :
       (LoadStep(s) /\ backup_file.kind = "snapshot")
       => /\ IndexOf(View(s), redis_client[s])' = backup_file.origin.index
          /\ RecordsOf(View(s), redis_client[s])'
               = backup_file.origin.records]_vars

\* the __init__ of a new process has just restored two tasks of different
\* priority, later than they were submitted
C8_Witness ==
  \E s \in Instances :
    /\ ret[s] = "restored"
    /\ last_backup_time[s] = None
    /\ LET index == IndexOf(View(s), redis_client[s])
       IN /\ Len(index) = 2
          /\ PriorityOf(RestoredMember(index[1]))
               # PriorityOf(RestoredMember(index[2]))
          /\ now > 0

C10_NeverPartialFile ==
  (\A s \in Instances : pc[s] # "dump") => backup_file.kind # "partial"

====
